---- MODULE Spec2Model ----
(***************************************************************************)
(* TDataProviderBuilder (catboost/cuda/data/load_data.cpp): ingestion of   *)
(* raw per-document values into growable blobs, then Finish(): document    *)
(* ordering, the parallel per-feature compile, the sequential              *)
(* reconciliation with the shared features manager, and validation.       *)
(*                                                                         *)
(* Vectors are sequences (1-based); row indices, feature ids and the       *)
(* entries of the Document Order keep the source's 0-based values, so      *)
(* element i of a vector v is v[i + 1].                                    *)
(***************************************************************************)
EXTENDS Integers, Sequences, FiniteSets, TLC

(***************************************************************************)
(* Bounds of the model.                                                    *)
(***************************************************************************)
MaxDocs == 2
MaxFeatures == 3
MaxSeed == 1
MaxPairs == 2
MaxThreads == 2
MaxWrites == 3
MaxBinCount == 9
MaxPackLen == 66
MaxStride == 2

(***************************************************************************)
(* Error messages of CB_ENSURE, by the text they carry.                    *)
(***************************************************************************)
ErrNone == "none"
ErrFinishTwice == "can't finish more than once"
ErrNegativeWeight == "Weights can't be negative"
ErrZeroWeights == "all weights are zero"
ErrConstTarget == "input target is constant and there are no pairs"
ErrNoQueryId == "for GPU pairwise learning you should provide query id column"
ErrOutOfRange == "binarized feature is out of range"
ErrSize == "size should be consistent"

(***************************************************************************)
(* Vector helpers.                                                         *)
(***************************************************************************)
Iota(n) == [i \in 1..n |-> i - 1]

Resize(s, n, fill) == [i \in 1..n |-> IF i <= Len(s) THEN s[i] ELSE fill]

Swap(s, i, j) == [s EXCEPT ![i] = s[j], ![j] = s[i]]

Range(s) == {s[i] : i \in 1..Len(s)}

SeqsUpTo(S, n) == UNION {[1..k -> S] : k \in 0..n}

Min(S) == CHOOSE x \in S : \A y \in S : x <= y

RECURSIVE SortedSeq(_)
SortedSeq(S) == IF S = {} THEN <<>>
                ELSE <<Min(S)>> \o SortedSeq(S \ {Min(S)})

RECURSIVE Pow2(_)
Pow2(n) == IF n = 0 THEN 1 ELSE 2 * Pow2(n - 1)

NaN == -1

(***************************************************************************)
(* Feature kinds (EFeatureValuesType) and NaN modes (ENanMode).            *)
(***************************************************************************)
Float == "Float"
Categorical == "Categorical"
BinarizedFloat == "BinarizedFloat"

NanForbidden == "Forbidden"
NanMin == "Min"
NanMax == "Max"

(***************************************************************************)
(* ValidateWeights: the first negative weight raises; otherwise all-zero   *)
(* (an empty vector included) raises.                                      *)
(***************************************************************************)
RECURSIVE ValidateWeightsFrom(_, _, _)
ValidateWeightsMutNoSign(weights) ==
    IF \A i \in 1..Len(weights) : weights[i] = 0 THEN ErrZeroWeights ELSE ErrNone

ValidateWeightsFrom(weights, i, hasNonZero) ==
    IF i > Len(weights)
    THEN IF hasNonZero THEN ErrNone ELSE ErrZeroWeights
    ELSE IF ~(weights[i] >= 0)
         THEN ErrNegativeWeight
         ELSE ValidateWeightsFrom(weights, i + 1, hasNonZero \/ weights[i] # 0)

ValidateWeights(weights) == ValidateWeightsFrom(weights, 1, FALSE)

(***************************************************************************)
(* IsConstant: no element differs from the first one.                      *)
(***************************************************************************)
IsConstant(vec) == \A i \in 1..Len(vec) : vec[i] = vec[1]

AreEqualTo(vec, v) == \A i \in 1..Len(vec) : vec[i] = v

(***************************************************************************)
(* HasQueryIds: some row's group id differs from TGroupId(row).            *)
(***************************************************************************)
HasQueryIdsMutNever(qids) == FALSE

HasQueryIds(qids) == \E i \in 1..Len(qids) : qids[i] # i - 1

(***************************************************************************)
(* GetBytesPerFeature and sizeof of the element types.                     *)
(***************************************************************************)
SizeofFloat == 4
SizeofUi8 == 1

BytesOfKind(kind) == IF kind = BinarizedFloat THEN SizeofUi8 ELSE SizeofFloat

(***************************************************************************)
(* MakeOrderedLine: line[i] = source[order[i]]; the byte size of the       *)
(* source must be sizeof(T) * order.size().  A blob of k elements of a     *)
(* feature of kind t holds k * BytesOfKind(t) bytes.                       *)
(***************************************************************************)
MakeOrderedLineOk(source, bytes, order, sizeofT) ==
    Len(source) * bytes = sizeofT * Len(order)

MakeOrderedLineMutIdentity(source, order) == [i \in 1..Len(order) |-> source[i]]

MakeOrderedLine(source, order) == [i \in 1..Len(order) |-> source[order[i] + 1]]

(***************************************************************************)
(* CreateOrderByKey: the stable ascending sort of the row indices by key.  *)
(***************************************************************************)
InsertByKey(sorted, idx, key) ==
    LET pos == Cardinality({k \in 1..Len(sorted) : key[sorted[k] + 1] <= key[idx + 1]})
    IN SubSeq(sorted, 1, pos) \o <<idx>> \o SubSeq(sorted, pos + 1, Len(sorted))

RECURSIVE OrderByKeyUpTo(_, _)
OrderByKeyUpTo(key, n) ==
    IF n = 0 THEN <<>> ELSE InsertByKey(OrderByKeyUpTo(key, n - 1), n - 1, key)

CreateOrderByKey(key) == OrderByKeyUpTo(key, Len(key))

(***************************************************************************)
(* The random generator behind Shuffle and QueryConsistentShuffle: a       *)
(* deterministic function of the seed.                                     *)
(***************************************************************************)
RngNext(x) == (x * 5 + 3) % 16

RECURSIVE FisherYates(_, _, _)
FisherYates(seq, i, x) ==
    IF i > Len(seq) THEN seq
    ELSE LET x1 == RngNext(x)
             j == (x1 % i) + 1
         IN FisherYates(Swap(seq, i, j), i + 1, x1)

Shuffle(seed, sampleCount, order) == FisherYates(Iota(sampleCount), 2, seed)

(***************************************************************************)
(* QueryConsistentShuffle: the groups in random order, each group's rows   *)
(* together and in their original relative order.                          *)
(***************************************************************************)
RECURSIVE GroupKeys(_, _, _)
GroupKeys(qids, i, acc) ==
    IF i > Len(qids) THEN acc
    ELSE GroupKeys(qids, i + 1,
                   IF qids[i] \in Range(acc) THEN acc ELSE Append(acc, qids[i]))

GroupRows(qids, q) == SelectSeq(Iota(Len(qids)), LAMBDA r : qids[r + 1] = q)

RECURSIVE ConcatGroups(_, _, _, _)
ConcatGroups(qids, keys, perm, k) ==
    IF k > Len(perm) THEN <<>>
    ELSE GroupRows(qids, keys[perm[k] + 1]) \o ConcatGroups(qids, keys, perm, k + 1)

QueryConsistentShuffle(seed, qids, order) ==
    LET keys == GroupKeys(qids, 1, <<>>)
        perm == FisherYates(Iota(Len(keys)), 2, seed)
    IN ConcatGroups(qids, keys, perm, 1)

(***************************************************************************)
(* ApplyPermutation of ApplyOrderToMetaColumns: data[i] = old[order[i]].   *)
(***************************************************************************)
ApplyPermutation(order, data) ==
    IF Len(data) = 0 THEN data
    ELSE [i \in 1..Len(order) |-> data[order[i] + 1]]

(***************************************************************************)
(* FillQueryPairs: the pairs of each group, keyed by the winner's group.   *)
(***************************************************************************)
FillQueryPairs(qids, pairs) ==
    [q \in Range(qids) |-> SelectSeq(pairs, LAMBDA p : qids[p[1] + 1] = q)]

(***************************************************************************)
(* Quantization helpers: borders of a float line, its bins, the bin count, *)
(* the bit width and the bit-packed column.                                *)
(***************************************************************************)
BuildBorders(values) ==
    LET distinct == Range(values) \ {NaN}
    IN IF distinct = {} THEN <<>>
       ELSE SortedSeq(distinct \ {CHOOSE m \in distinct : \A y \in distinct : y <= m})

ComputeNanMode(values) == IF NaN \in Range(values) THEN NanMin ELSE NanForbidden

GetBinCount(borders, nanMode) ==
    Len(borders) + 1 + (IF nanMode = NanForbidden THEN 0 ELSE 1)

BinOf(v, nanMode, borders) ==
    IF v = NaN
    THEN IF nanMode = NanMax THEN Len(borders) + 1 ELSE 0
    ELSE Cardinality({b \in 1..Len(borders) : borders[b] < v})
         + (IF nanMode = NanMin THEN 1 ELSE 0)

BinarizeLine(values, nanMode, borders) ==
    [i \in 1..Len(values) |-> BinOf(values[i], nanMode, borders)]

RECURSIVE IntLog2From(_, _)
IntLog2From(values, bits) ==
    IF Pow2(bits) >= values THEN bits ELSE IntLog2From(values, bits + 1)

IntLog2(values) == IntLog2From(values, 0)

StorageBits == 64

(* A ui64 word is the tuple of its 64 bits, bit 0 the lowest. *)
Bit(v, p) == (v \div Pow2(p)) % 2

(* The word of the keys data[from..to]: key number j of the word (from 0)
   takes the bits j * bitsPerKey .. (j + 1) * bitsPerKey - 1 and keeps its
   low bitsPerKey bits. *)
PackWord(data, from, to, bitsPerKey) ==
    [p \in 0..(StorageBits - 1) |->
        IF from + (p \div bitsPerKey) <= to
        THEN Bit(data[from + (p \div bitsPerKey)], p % bitsPerKey)
        ELSE 0]

CompressVectorMutNarrow(data, bitsPerKey) ==
    LET keysPerBlock == StorageBits \div bitsPerKey
        blocks == (Len(data) + keysPerBlock - 1) \div keysPerBlock
    IN [w \in 1..blocks |->
          PackWord([i \in 1..Len(data) |-> data[i] % Pow2(bitsPerKey - 1)],
                   (w - 1) * keysPerBlock + 1,
                   IF w * keysPerBlock < Len(data) THEN w * keysPerBlock ELSE Len(data),
                   bitsPerKey)]

CompressVector(data, bitsPerKey) ==
    LET keysPerBlock == StorageBits \div bitsPerKey
        blocks == (Len(data) + keysPerBlock - 1) \div keysPerBlock
    IN [w \in 1..blocks |->
          PackWord(data, (w - 1) * keysPerBlock + 1,
                   IF w * keysPerBlock < Len(data) THEN w * keysPerBlock ELSE Len(data),
                   bitsPerKey)]

(* The key at index i (from 0) of a packed vector. *)
RECURSIVE BitsValue(_, _, _)
BitsValue(word, shift, n) ==
    IF n = 0 THEN 0
    ELSE word[shift] + 2 * BitsValue(word, shift + 1, n - 1)

Extract(words, bitsPerKey, i) ==
    LET keysPerBlock == StorageBits \div bitsPerKey
    IN BitsValue(words[(i \div keysPerBlock) + 1], (i % keysPerBlock) * bitsPerKey,
                 bitsPerKey)

DecompressVector(words, bitsPerKey, size) ==
    [i \in 1..size |-> Extract(words, bitsPerKey, i - 1)]

(***************************************************************************)
(* The perfect hash of one categorical feature is the sequence of its raw  *)
(* values in first-seen order: the code of a value is its position - 1.    *)
(***************************************************************************)
RECURSIVE UpdatePerfectHashMutPrepend(_, _, _)
UpdatePerfectHashMutPrepend(hash, line, i) ==
    IF i > Len(line) THEN hash
    ELSE UpdatePerfectHashMutPrepend(IF line[i] \in Range(hash) THEN hash
                                     ELSE <<line[i]>> \o hash,
                                     line, i + 1)

RECURSIVE UpdatePerfectHash(_, _, _)
UpdatePerfectHash(hash, line, i) ==
    IF i > Len(line) THEN hash
    ELSE UpdatePerfectHash(IF line[i] \in Range(hash) THEN hash ELSE Append(hash, line[i]),
                           line, i + 1)

HashCode(hash, v) == (CHOOSE k \in 1..Len(hash) : hash[k] = v) - 1

BinarizeByHash(hash, line) == [i \in 1..Len(line) |-> HashCode(hash, line[i])]

(***************************************************************************)
(* Compiled columns (TCatFeatureValuesHolder, TBinarizedFloatValuesHolder) *)
(* and the null column pointer.                                            *)
(***************************************************************************)
NullColumn == [kind |-> "null"]

CatColumn(featureId, size, data, uniqueValues, name) ==
    [kind |-> "cat", featureId |-> featureId, size |-> size, data |-> data,
     uniqueValues |-> uniqueValues, name |-> name]

BinarizedColumn(featureId, size, nanMode, borders, data, name) ==
    [kind |-> "float", featureId |-> featureId, size |-> size, nanMode |-> nanMode,
     borders |-> borders, data |-> data, name |-> name]

EmptyName == <<>>

GetFeatureName(featureId) == <<featureId>>

FeatureIds == 0..(MaxFeatures - 1)

(***************************************************************************)
(* State.                                                                  *)
(***************************************************************************)
VARIABLES
    IsTest,                     \* constructor arguments and setters
    ShuffleFlag,
    Seed,
    BuildThreads,
    IgnoreFeatures,
    BinarizedFeaturesMetaInfo,
    TargetHelper,
    IsDone,                     \* builder fields
    Cursor,
    FeatureBlobs,
    FeatureTypes,
    Borders,
    NanModes,
    Pairs,
    Labels,
    DataProvider,               \* the dataset under assembly
    FeaturesManager,            \* the shared metadata store
    pc,                         \* position of the thread inside Finish
    featureNames,               \* locals of Finish
    featureColumns,
    task,                       \* position of each feature's compile task
    lock,                       \* holder of the TAdaptiveLock, or NoHolder
    error,                      \* what the last call raised
    snap,                       \* the inputs of the Finish call in progress or last made
    writes,                     \* number of value writes made so far
    compress                    \* a CompressVector call: its arguments and results

vars == <<IsTest, ShuffleFlag, Seed, BuildThreads, IgnoreFeatures,
          BinarizedFeaturesMetaInfo, TargetHelper, IsDone, Cursor, FeatureBlobs,
          FeatureTypes, Borders, NanModes, Pairs, Labels, DataProvider,
          FeaturesManager, pc, featureNames, featureColumns, task, lock, error, snap,
          writes, compress>>

builderVars == <<IsTest, ShuffleFlag, Seed, BuildThreads, IgnoreFeatures,
                 BinarizedFeaturesMetaInfo, TargetHelper, IsDone, Cursor, FeatureBlobs,
                 FeatureTypes, Borders, NanModes, Pairs, Labels, DataProvider,
                 FeaturesManager, pc, featureNames, featureColumns, task, lock, error,
                 snap, writes>>

config == <<IsTest, Seed, BuildThreads, IgnoreFeatures, BinarizedFeaturesMetaInfo,
            TargetHelper>>

finishLocals == <<featureNames, featureColumns, task, lock>>

NoHolder == MaxFeatures

NoSnap == [taken |-> FALSE]

NoCompress == [stage |-> "none"]

EmptyDataProvider ==
    [Targets |-> <<>>, Weights |-> <<>>, QueryIds |-> <<>>, SubgroupIds |-> <<>>,
     Timestamp |-> <<>>, Baseline |-> <<>>, Order |-> <<>>, Features |-> <<>>,
     FeatureNames |-> <<>>, QueryPairs |-> <<>>, HasShuffleSeed |-> FALSE,
     ShuffleSeed |-> 0, CatFeatureIds |-> {}, FeatureCount |-> 0,
     HasTargetHelper |-> FALSE, IndicesRemap |-> <<>>]

EmptyFeaturesManager ==
    [Known |-> {},
     NanModes |-> [f \in FeatureIds |-> "unset"],
     HasBorders |-> {},
     Borders |-> [f \in FeatureIds |-> <<>>],
     CatFeaturesPerfectHash |-> [f \in FeatureIds |-> <<>>],
     TargetBorders |-> <<>>]

NoBinarizedFeatures == [BinarizedFeatureIds |-> <<>>, Borders |-> <<>>, NanModes |-> <<>>]

(***************************************************************************)
(* Init: a constructed builder (IsTest, the shuffle flag and seed, the     *)
(* thread count, the ignored features, the pre-binarized features and the  *)
(* target helper set by the caller) over an empty dataset and store.  P    *)
(* gives the sets the inputs are drawn from.                               *)
(***************************************************************************)
InitBuilder(P) ==
    /\ IsTest \in P.isTest
    /\ ShuffleFlag \in P.shuffle
    /\ Seed \in P.seeds
    /\ BuildThreads \in P.threads
    /\ IgnoreFeatures \in P.ignore
    /\ BinarizedFeaturesMetaInfo \in P.binarized
    /\ TargetHelper \in P.helper
    /\ IsDone = FALSE
    /\ Cursor = 0
    /\ FeatureBlobs = <<>>
    /\ FeatureTypes = <<>>
    /\ Borders = <<>>
    /\ NanModes = <<>>
    /\ Pairs = <<>>
    /\ Labels = <<>>
    /\ DataProvider = EmptyDataProvider
    /\ FeaturesManager = EmptyFeaturesManager
    /\ pc = "idle"
    /\ featureNames = <<>>
    /\ featureColumns = <<>>
    /\ task = <<>>
    /\ lock = NoHolder
    /\ error = ErrNone
    /\ snap = NoSnap
    /\ writes = 0

InitP(P) == InitBuilder(P) /\ compress = NoCompress

(***************************************************************************)
(* Start(poolMetaInfo, docCount, catFeatureIds).  The vectors of targets,  *)
(* weights, group ids, subgroup ids and timestamps are not cleared; the    *)
(* feature kinds, borders and NaN modes are resized, which keeps the       *)
(* entries an earlier Start has set.  The loop over the pre-binarized      *)
(* features raises at the first index out of range, after the entries      *)
(* before it were applied.                                                 *)
(***************************************************************************)
DefaultNanMode == NanMin

RECURSIVE ApplyBinarized(_, _, _, _)
ApplyBinarized(st, meta, i, featureCount) ==
    IF i > Len(meta.BinarizedFeatureIds) THEN st
    ELSE LET id == meta.BinarizedFeatureIds[i]
         IN IF ~(id < featureCount)
            THEN [st EXCEPT !.err = ErrOutOfRange]
            ELSE ApplyBinarized(
                    [st EXCEPT !.types[id + 1] = BinarizedFloat,
                               !.nanModes[id + 1] = meta.NanModes[i],
                               !.borders[id + 1] = meta.Borders[i]],
                    meta, i + 1, featureCount)

MarkCategorical(types, cats) ==
    [i \in 1..Len(types) |-> IF (i - 1) \in cats THEN Categorical ELSE types[i]]

Start(featureCount, baselineCount, catFeatureIds) ==
    /\ pc = "idle"
    /\ LET types0 == MarkCategorical(Resize(FeatureTypes, featureCount, Float), catFeatureIds)
           st == ApplyBinarized([types |-> types0,
                                 nanModes |-> Resize(NanModes, featureCount, DefaultNanMode),
                                 borders |-> Resize(Borders, featureCount, <<>>),
                                 err |-> ErrNone],
                                BinarizedFeaturesMetaInfo, 1, featureCount)
       IN /\ FeatureTypes' = st.types
          /\ NanModes' = st.nanModes
          /\ Borders' = st.borders
          /\ error' = st.err
          /\ DataProvider' =
                IF st.err = ErrNone
                THEN [DataProvider EXCEPT !.Features = <<>>,
                                          !.Baseline = [b \in 1..baselineCount |-> <<>>],
                                          !.CatFeatureIds = catFeatureIds,
                                          !.FeatureCount = featureCount]
                ELSE [DataProvider EXCEPT !.Features = <<>>,
                                          !.Baseline = [b \in 1..baselineCount |-> <<>>]]
    /\ Cursor' = 0
    /\ IsDone' = FALSE
    /\ FeatureBlobs' = [f \in 1..featureCount |-> <<>>]
    /\ snap' = NoSnap
    /\ UNCHANGED <<config, ShuffleFlag, Pairs, Labels, FeaturesManager, pc, finishLocals>>

(***************************************************************************)
(* A further builder is constructed over a new, empty dataset and the same *)
(* metadata store (a learn build followed by a test build, say), with its  *)
(* own test flag, shuffle flag and pre-binarized features.                 *)
(***************************************************************************)
NewBuilder(isTest, shuffle, binarized) ==
    /\ pc = "idle"
    /\ IsTest' = isTest
    /\ ShuffleFlag' = shuffle
    /\ BinarizedFeaturesMetaInfo' = binarized
    /\ IsDone' = FALSE
    /\ Cursor' = 0
    /\ FeatureBlobs' = <<>>
    /\ FeatureTypes' = <<>>
    /\ Borders' = <<>>
    /\ NanModes' = <<>>
    /\ Pairs' = <<>>
    /\ Labels' = <<>>
    /\ DataProvider' = EmptyDataProvider
    /\ error' = ErrNone
    /\ snap' = NoSnap
    /\ UNCHANGED <<Seed, BuildThreads, IgnoreFeatures, TargetHelper, FeaturesManager,
                   pc, finishLocals>>

(***************************************************************************)
(* StartNextBlock(blockSize).                                              *)
(***************************************************************************)
StartNextBlockMutRefill(blockSize) ==
    /\ pc = "idle"
    /\ Len(DataProvider.Targets) + blockSize <= MaxDocs
    /\ LET cursor == Len(DataProvider.Targets)
           newDataSize == cursor + blockSize
           qids == Resize(DataProvider.QueryIds, newDataSize, 0)
           sgids == Resize(DataProvider.SubgroupIds, newDataSize, 0)
       IN /\ Cursor' = cursor
          /\ DataProvider' =
                [DataProvider EXCEPT
                    !.Targets = Resize(@, newDataSize, 0),
                    !.Weights = Resize(@, newDataSize, 1),
                    !.QueryIds = [i \in 1..newDataSize |-> i - 1],
                    !.SubgroupIds = [i \in 1..newDataSize |->
                                        IF i - 1 >= cursor THEN i - 1 ELSE sgids[i]],
                    !.Timestamp = Resize(@, newDataSize, 0),
                    !.Baseline = [b \in 1..Len(@) |-> Resize(@[b], newDataSize, 0)]]
          /\ FeatureBlobs' =
                [f \in 1..Len(FeatureBlobs) |->
                    IF (f - 1) \notin IgnoreFeatures
                    THEN Resize(FeatureBlobs[f], newDataSize, 0)
                    ELSE FeatureBlobs[f]]
          /\ Labels' = Resize(Labels, newDataSize, 0)
    /\ error' = ErrNone
    /\ UNCHANGED <<config, ShuffleFlag, IsDone, FeatureTypes, Borders, NanModes, Pairs,
                   FeaturesManager, pc, finishLocals, snap>>

StartNextBlock(blockSize) ==
    /\ pc = "idle"
    /\ Len(DataProvider.Targets) + blockSize <= MaxDocs
    /\ LET cursor == Len(DataProvider.Targets)
           newDataSize == cursor + blockSize
           qids == Resize(DataProvider.QueryIds, newDataSize, 0)
           sgids == Resize(DataProvider.SubgroupIds, newDataSize, 0)
       IN /\ Cursor' = cursor
          /\ DataProvider' =
                [DataProvider EXCEPT
                    !.Targets = Resize(@, newDataSize, 0),
                    !.Weights = Resize(@, newDataSize, 1),
                    !.QueryIds = [i \in 1..newDataSize |->
                                     IF i - 1 >= cursor THEN i - 1 ELSE qids[i]],
                    !.SubgroupIds = [i \in 1..newDataSize |->
                                        IF i - 1 >= cursor THEN i - 1 ELSE sgids[i]],
                    !.Timestamp = Resize(@, newDataSize, 0),
                    !.Baseline = [b \in 1..Len(@) |-> Resize(@[b], newDataSize, 0)]]
          /\ FeatureBlobs' =
                [f \in 1..Len(FeatureBlobs) |->
                    IF (f - 1) \notin IgnoreFeatures
                    THEN Resize(FeatureBlobs[f], newDataSize, 0)
                    ELSE FeatureBlobs[f]]
          /\ Labels' = Resize(Labels, newDataSize, 0)
    /\ error' = ErrNone
    /\ UNCHANGED <<config, ShuffleFlag, IsDone, FeatureTypes, Borders, NanModes, Pairs,
                   FeaturesManager, pc, finishLocals, snap>>

(***************************************************************************)
(* The writes of one value into the current block.  GetLineIdx(localIdx)   *)
(* is Cursor + localIdx.                                                   *)
(***************************************************************************)
GetLineIdx(localIdx) == Cursor + localIdx

LocalRows == {i \in 0..(MaxDocs - 1) : GetLineIdx(i) < Len(DataProvider.Targets)}

WriteFrame == UNCHANGED <<config, ShuffleFlag, IsDone, Cursor, FeatureTypes, Borders,
                          NanModes, Pairs, Labels, FeaturesManager, pc, finishLocals,
                          snap>>

AddTarget(localIdx, value) ==
    /\ pc = "idle"
    /\ localIdx \in LocalRows
    /\ DataProvider' = [DataProvider EXCEPT !.Targets[GetLineIdx(localIdx) + 1] = value]
    /\ error' = ErrNone
    /\ UNCHANGED FeatureBlobs
    /\ WriteFrame

AddWeight(localIdx, value) ==
    /\ pc = "idle"
    /\ localIdx \in LocalRows
    /\ DataProvider' = [DataProvider EXCEPT !.Weights[GetLineIdx(localIdx) + 1] = value]
    /\ error' = ErrNone
    /\ UNCHANGED FeatureBlobs
    /\ WriteFrame

AddQueryId(localIdx, value) ==
    /\ pc = "idle"
    /\ localIdx \in LocalRows
    /\ GetLineIdx(localIdx) < Len(DataProvider.QueryIds)
    /\ DataProvider' = [DataProvider EXCEPT !.QueryIds[GetLineIdx(localIdx) + 1] = value]
    /\ error' = ErrNone
    /\ UNCHANGED FeatureBlobs
    /\ WriteFrame

AddSubgroupId(localIdx, value) ==
    /\ pc = "idle"
    /\ localIdx \in LocalRows
    /\ DataProvider' = [DataProvider EXCEPT !.SubgroupIds[GetLineIdx(localIdx) + 1] = value]
    /\ error' = ErrNone
    /\ UNCHANGED FeatureBlobs
    /\ WriteFrame

AddTimestamp(localIdx, value) ==
    /\ pc = "idle"
    /\ localIdx \in LocalRows
    /\ DataProvider' = [DataProvider EXCEPT !.Timestamp[GetLineIdx(localIdx) + 1] = value]
    /\ error' = ErrNone
    /\ UNCHANGED FeatureBlobs
    /\ WriteFrame

AddBaseline(localIdx, offset, value) ==
    /\ pc = "idle"
    /\ localIdx \in LocalRows
    /\ offset + 1 \in 1..Len(DataProvider.Baseline)
    /\ GetLineIdx(localIdx) < Len(DataProvider.Baseline[offset + 1])
    /\ DataProvider' =
          [DataProvider EXCEPT !.Baseline[offset + 1][GetLineIdx(localIdx) + 1] = value]
    /\ error' = ErrNone
    /\ UNCHANGED FeatureBlobs
    /\ WriteFrame

WriteBinarizedFeatureToBlobImpl(localIdx, featureId, feature) ==
    /\ pc = "idle"
    /\ featureId + 1 \in 1..Len(FeatureBlobs)
    /\ featureId \notin IgnoreFeatures
    /\ FeatureTypes[featureId + 1] = BinarizedFloat
    /\ GetLineIdx(localIdx) < Len(FeatureBlobs[featureId + 1])
    /\ FeatureBlobs' = [FeatureBlobs EXCEPT ![featureId + 1][GetLineIdx(localIdx) + 1] = feature]
    /\ error' = ErrNone
    /\ UNCHANGED DataProvider
    /\ WriteFrame

WriteFloatOrCatFeatureToBlobImpl(localIdx, featureId, feature) ==
    /\ pc = "idle"
    /\ featureId + 1 \in 1..Len(FeatureBlobs)
    /\ featureId \notin IgnoreFeatures
    /\ FeatureTypes[featureId + 1] \in {Float, Categorical}
    /\ GetLineIdx(localIdx) < Len(FeatureBlobs[featureId + 1])
    /\ FeatureBlobs' = [FeatureBlobs EXCEPT ![featureId + 1][GetLineIdx(localIdx) + 1] = feature]
    /\ error' = ErrNone
    /\ UNCHANGED DataProvider
    /\ WriteFrame

SetPairs(pairs) ==
    /\ pc = "idle"
    /\ \A i \in 1..Len(pairs) : /\ pairs[i][1] < Len(DataProvider.Targets)
                                /\ pairs[i][2] < Len(DataProvider.Targets)
    /\ Pairs' = pairs
    /\ error' = ErrNone
    /\ UNCHANGED <<config, ShuffleFlag, IsDone, Cursor, FeatureBlobs, FeatureTypes,
                   Borders, NanModes, Labels, DataProvider, FeaturesManager, pc,
                   finishLocals, snap>>

(***************************************************************************)
(* Finish, first part (up to the parallel compile): the IsDone check, the  *)
(* Document Order, the group ids, the target helper, the pairs, the        *)
(* shuffle and the reordering of the per-document vectors.                 *)
(***************************************************************************)
CanFinishMutAlways == TRUE

CanFinish == ~IsDone

ShuffleFlagAfterTimestampsMutKeep(timestamp, shuffleFlag) == shuffleFlag

ShuffleFlagAfterTimestamps(timestamp, shuffleFlag) ==
    IF ~AreEqualTo(timestamp, 0) THEN FALSE ELSE shuffleFlag

(* lines 111-113: resize, then std::iota *)
IotaOrderMutNoIota(n) == [i \in 1..n |-> 0]

IotaOrder(n) == Iota(n)

OrderAfterTimestampsMutUnsorted(timestamp, n) == IotaOrder(n)

OrderAfterTimestamps(timestamp, n) ==
    IF ~AreEqualTo(timestamp, 0) THEN CreateOrderByKey(timestamp) ELSE IotaOrder(n)

OrderAfterShuffle(shuffleFlag, hasQueryIds, seed, qids, n, order) ==
    IF shuffleFlag
    THEN IF hasQueryIds
         THEN QueryConsistentShuffle(seed, qids, order)
         ELSE Shuffle(seed, n, order)
    ELSE order

FinishOrder(timestamp, qids, shuffleFlag, seed, n) ==
    OrderAfterShuffle(ShuffleFlagAfterTimestamps(timestamp, shuffleFlag),
                      HasQueryIds(qids), seed, qids, n,
                      OrderAfterTimestamps(timestamp, n))

PairsNeedQueryIdsMutNever(pairs, hasQueryIds) == FALSE

PairsNeedQueryIds(pairs, hasQueryIds) == Len(pairs) # 0 /\ ~hasQueryIds

ShouldApplyOrder(shuffleFlag, timestamp) == shuffleFlag \/ Len(timestamp) # 0

ApplyOrderToMetaColumns(dp) ==
    [dp EXCEPT !.Targets = ApplyPermutation(dp.Order, @),
               !.Weights = ApplyPermutation(dp.Order, @),
               !.Baseline = [b \in 1..Len(@) |-> ApplyPermutation(dp.Order, @[b])],
               !.QueryIds = ApplyPermutation(dp.Order, @),
               !.SubgroupIds = ApplyPermutation(dp.Order, @),
               !.Timestamp = ApplyPermutation(dp.Order, @)]

(* MakeTargetAndWeights rewrites targets and weights in place. *)
HelperOutputs(targetVals, weightVals) ==
    IF TargetHelper
    THEN [Targets : [1..Len(DataProvider.Targets) -> targetVals],
          Weights : [1..Len(DataProvider.Weights) -> weightVals]]
    ELSE {[Targets |-> DataProvider.Targets, Weights |-> DataProvider.Weights]}

FinishBegin(targetVals, weightVals) ==
    /\ pc = "idle"
    /\ IF ~CanFinish
       THEN /\ error' = ErrFinishTwice
            /\ UNCHANGED <<config, ShuffleFlag, IsDone, Cursor, FeatureBlobs, FeatureTypes,
                           Borders, NanModes, Pairs, Labels, DataProvider,
                           FeaturesManager, pc, finishLocals, snap>>
       ELSE \E conv \in HelperOutputs(targetVals, weightVals) :
            LET n == Len(DataProvider.Targets)
                timestamp == DataProvider.Timestamp
                flag1 == ShuffleFlagAfterTimestamps(timestamp, ShuffleFlag)
                order1 == OrderAfterTimestamps(timestamp, n)
                hasQueryIds == HasQueryIds(DataProvider.QueryIds)
                dp1 == [DataProvider EXCEPT
                          !.Order = order1,
                          !.QueryIds = IF hasQueryIds THEN @ ELSE <<>>,
                          !.HasTargetHelper = @ \/ TargetHelper,
                          !.Targets = conv.Targets,
                          !.Weights = conv.Weights]
                order2 == OrderAfterShuffle(flag1, hasQueryIds, Seed, dp1.QueryIds, n, order1)
                dp2 == [dp1 EXCEPT
                          !.QueryPairs = IF Len(Pairs) # 0
                                         THEN FillQueryPairs(dp1.QueryIds, Pairs) ELSE @,
                          !.Order = order2,
                          !.HasShuffleSeed = @ \/ flag1,
                          !.ShuffleSeed = IF flag1 THEN Seed ELSE @]
                dp3 == IF ShouldApplyOrder(flag1, timestamp)
                       THEN ApplyOrderToMetaColumns(dp2) ELSE dp2
                taken == [taken |-> TRUE,
                          ShuffleFlag |-> ShuffleFlag,
                          hasQueryIds |-> hasQueryIds,
                          dp |-> [DataProvider EXCEPT !.Targets = conv.Targets,
                                                      !.Weights = conv.Weights],
                          blobs |-> FeatureBlobs,
                          borders |-> Borders,
                          nanModes |-> NanModes,
                          manager |-> FeaturesManager]
            IN /\ ShuffleFlag' = flag1
               /\ snap' = taken
               /\ IF PairsNeedQueryIds(Pairs, hasQueryIds)
                  THEN /\ error' = ErrNoQueryId
                       /\ DataProvider' = dp1
                       /\ UNCHANGED <<pc, finishLocals, FeaturesManager>>
                  ELSE /\ error' = ErrNone
                       /\ DataProvider' = dp3
                       /\ pc' = "compile"
                       /\ featureNames' = [f \in 1..Len(FeatureBlobs) |-> EmptyName]
                       /\ featureColumns' = [f \in 1..Len(FeatureBlobs) |-> NullColumn]
                       /\ task' = [f \in 1..Len(FeatureBlobs) |-> "todo"]
                       /\ lock' = NoHolder
                       /\ FeaturesManager' =
                             IF ~IsTest
                             THEN [FeaturesManager EXCEPT
                                     !.Known = @ \cup {f - 1 : f \in 1..Len(FeatureBlobs)}]
                             ELSE FeaturesManager
               /\ UNCHANGED <<config, IsDone, Cursor, FeatureBlobs, FeatureTypes, Borders,
                              NanModes, Pairs, Labels>>

(***************************************************************************)
(* Finish, the parallel compile: one task per feature id, at most          *)
(* BuildThreads of them in progress.  A task's position is task[f + 1].    *)
(***************************************************************************)
ErrNanMode == "nan mode mismatch"

TaskEnded(t) == t \in {"done", ErrSize, ErrNanMode}

InProgress == {f \in 1..Len(task) : task[f] # "todo" /\ ~TaskEnded(task[f])}

TaskFrame == UNCHANGED <<config, ShuffleFlag, IsDone, Cursor, FeatureTypes, Pairs, Labels,
                         DataProvider, pc, error, snap>>

(* lines 166-173 *)
TaskBegin(featureId) ==
    /\ pc = "compile"
    /\ featureId + 1 \in 1..Len(task)
    /\ task[featureId + 1] = "todo"
    /\ Cardinality(InProgress) < BuildThreads
    /\ featureNames' = [featureNames EXCEPT ![featureId + 1] = GetFeatureName(featureId)]
    /\ task' = [task EXCEPT ![featureId + 1] =
                  IF Len(FeatureBlobs[featureId + 1]) = 0 THEN "done"
                  ELSE IF FeatureTypes[featureId + 1] = Categorical THEN "cat"
                  ELSE IF FeatureTypes[featureId + 1] = BinarizedFloat THEN "bin"
                  ELSE "float"]
    /\ UNCHANGED <<FeatureBlobs, Borders, NanModes, FeaturesManager, featureColumns, lock>>
    /\ TaskFrame

(* lines 175-198 *)
ShouldSkip(featureId) ==
    IsTest /\ Len(FeaturesManager.CatFeaturesPerfectHash[featureId]) = 0

TaskCat(featureId) ==
    /\ pc = "compile"
    /\ featureId + 1 \in 1..Len(task)
    /\ task[featureId + 1] = "cat"
    /\ IF ~MakeOrderedLineOk(FeatureBlobs[featureId + 1], SizeofFloat,
                             DataProvider.Order, SizeofFloat)
       THEN /\ task' = [task EXCEPT ![featureId + 1] = ErrSize]
            /\ UNCHANGED <<FeaturesManager, featureColumns>>
       ELSE LET line == MakeOrderedLine(FeatureBlobs[featureId + 1], DataProvider.Order)
                hash == UpdatePerfectHash(FeaturesManager.CatFeaturesPerfectHash[featureId],
                                          line, 1)
                uniqueValues == Len(hash)
            IN /\ task' = [task EXCEPT ![featureId + 1] = "free"]
               /\ IF ShouldSkip(featureId)
                  THEN UNCHANGED <<FeaturesManager, featureColumns>>
                  ELSE /\ FeaturesManager' =
                             [FeaturesManager EXCEPT
                                 !.CatFeaturesPerfectHash[featureId] = hash]
                       /\ featureColumns' =
                             IF uniqueValues > 1
                             THEN [featureColumns EXCEPT ![featureId + 1] =
                                     CatColumn(featureId, Len(line),
                                               CompressVector(BinarizeByHash(hash, line),
                                                              IntLog2(uniqueValues)),
                                               uniqueValues, GetFeatureName(featureId))]
                             ELSE featureColumns
    /\ UNCHANGED <<FeatureBlobs, Borders, NanModes, featureNames, lock>>
    /\ TaskFrame

(* lines 199-218 *)
TaskBin(featureId) ==
    /\ pc = "compile"
    /\ featureId + 1 \in 1..Len(task)
    /\ task[featureId + 1] = "bin"
    /\ LET borders == Borders[featureId + 1]
           nanMode == NanModes[featureId + 1]
       IN IF Len(borders) = 0
          THEN /\ task' = [task EXCEPT ![featureId + 1] = "done"]
               /\ UNCHANGED featureColumns
          ELSE IF ~MakeOrderedLineOk(FeatureBlobs[featureId + 1], SizeofUi8,
                                     DataProvider.Order, SizeofUi8)
          THEN /\ task' = [task EXCEPT ![featureId + 1] = ErrSize]
               /\ UNCHANGED featureColumns
          ELSE LET binarizedData == MakeOrderedLine(FeatureBlobs[featureId + 1],
                                                    DataProvider.Order)
                   binCount == GetBinCount(borders, nanMode)
               IN /\ task' = [task EXCEPT ![featureId + 1] = "binLock"]
                  /\ featureColumns' =
                        [featureColumns EXCEPT ![featureId + 1] =
                            BinarizedColumn(featureId, Len(DataProvider.Order), nanMode,
                                            borders,
                                            CompressVector(binarizedData, IntLog2(binCount)),
                                            GetFeatureName(featureId))]
    /\ UNCHANGED <<FeatureBlobs, Borders, NanModes, FeaturesManager, featureNames, lock>>
    /\ TaskFrame

(* line 219: with_lock (lock) *)
TaskBinLock(featureId) ==
    /\ pc = "compile"
    /\ featureId + 1 \in 1..Len(task)
    /\ task[featureId + 1] = "binLock"
    /\ lock = NoHolder
    /\ lock' = featureId
    /\ task' = [task EXCEPT ![featureId + 1] = "binNanMode"]
    /\ UNCHANGED <<FeatureBlobs, Borders, NanModes, FeaturesManager, featureNames,
                   featureColumns>>
    /\ TaskFrame

(* lines 220-222: SetOrCheckNanMode, then the lock is released *)
TaskBinNanMode(featureId) ==
    /\ pc = "compile"
    /\ featureId + 1 \in 1..Len(task)
    /\ task[featureId + 1] = "binNanMode"
    /\ lock = featureId
    /\ LET nanMode == NanModes[featureId + 1]
           known == FeaturesManager.NanModes[featureId]
       IN IF known = "unset"
          THEN /\ FeaturesManager' = [FeaturesManager EXCEPT !.NanModes[featureId] = nanMode]
               /\ task' = [task EXCEPT ![featureId + 1] = "free"]
          ELSE /\ UNCHANGED FeaturesManager
               /\ task' = [task EXCEPT ![featureId + 1] =
                              IF known = nanMode THEN "free" ELSE ErrNanMode]
    /\ lock' = NoHolder
    /\ UNCHANGED <<FeatureBlobs, Borders, NanModes, featureNames, featureColumns>>
    /\ TaskFrame

(* lines 224-236: the reordered line of raw floats *)
FloatLine(featureId) ==
    [i \in 1..Len(DataProvider.Order) |->
        FeatureBlobs[featureId + 1][DataProvider.Order[i] + 1]]

TaskFloat(featureId) ==
    /\ pc = "compile"
    /\ featureId + 1 \in 1..Len(task)
    /\ task[featureId + 1] = "float"
    /\ task' = [task EXCEPT ![featureId + 1] = "floatLock"]
    /\ UNCHANGED <<FeatureBlobs, Borders, NanModes, FeaturesManager, featureNames,
                   featureColumns, lock>>
    /\ TaskFrame

(* line 238: TGuard<TAdaptiveLock> guard(lock) *)
TaskFloatLock(featureId) ==
    /\ pc = "compile"
    /\ featureId + 1 \in 1..Len(task)
    /\ task[featureId + 1] = "floatLock"
    /\ lock = NoHolder
    /\ lock' = featureId
    /\ task' = [task EXCEPT ![featureId + 1] = "floatNanMode"]
    /\ UNCHANGED <<FeatureBlobs, Borders, NanModes, FeaturesManager, featureNames,
                   featureColumns>>
    /\ TaskFrame

(* lines 239-240: GetOrComputeNanMode, then the guard is destroyed *)
TaskFloatNanMode(featureId) ==
    /\ pc = "compile"
    /\ featureId + 1 \in 1..Len(task)
    /\ task[featureId + 1] = "floatNanMode"
    /\ lock = featureId
    /\ LET known == FeaturesManager.NanModes[featureId]
           nanMode == IF known = "unset" THEN ComputeNanMode(FloatLine(featureId))
                      ELSE known
       IN /\ FeaturesManager' = [FeaturesManager EXCEPT !.NanModes[featureId] = nanMode]
          /\ NanModes' = [NanModes EXCEPT ![featureId + 1] = nanMode]
    /\ lock' = NoHolder
    /\ task' = [task EXCEPT ![featureId + 1] = "floatBorders"]
    /\ UNCHANGED <<FeatureBlobs, Borders, featureNames, featureColumns>>
    /\ TaskFrame

FloatBordersMutKept(featureId) == Borders[featureId + 1]

FloatBordersMutFresh(featureId) ==
    LET kept == IF featureId \in FeaturesManager.HasBorders
                THEN FeaturesManager.Borders[featureId]
                ELSE Borders[featureId + 1]
    IN IF Len(kept) = 0 THEN BuildBorders(FloatLine(featureId)) ELSE kept

FloatBordersMutShared(featureId) ==
    LET others == {g \in 1..Len(Borders) : g # featureId + 1 /\ Borders[g] # <<>>}
    IN IF others # {} THEN Borders[CHOOSE g \in others : TRUE]
       ELSE IF ~IsTest THEN BuildBorders(FloatLine(featureId))
       ELSE Borders[featureId + 1]

(* lines 242-269: the borders (stored, kept or built), the bins, the column *)
FloatBorders(featureId) ==
    LET kept == IF featureId \in FeaturesManager.HasBorders
                THEN FeaturesManager.Borders[featureId]
                ELSE Borders[featureId + 1]
    IN IF Len(kept) = 0 /\ ~IsTest THEN BuildBorders(FloatLine(featureId)) ELSE kept

TaskFloatBorders(featureId) ==
    /\ pc = "compile"
    /\ featureId + 1 \in 1..Len(task)
    /\ task[featureId + 1] = "floatBorders"
    /\ LET borders == FloatBorders(featureId)
           nanMode == NanModes[featureId + 1]
           values == FloatLine(featureId)
           binCount == GetBinCount(borders, nanMode)
       IN /\ Borders' = [Borders EXCEPT ![featureId + 1] = borders]
          /\ IF Len(borders) = 0
             THEN /\ task' = [task EXCEPT ![featureId + 1] = "done"]
                  /\ UNCHANGED featureColumns
             ELSE /\ task' = [task EXCEPT ![featureId + 1] = "free"]
                  /\ featureColumns' =
                        [featureColumns EXCEPT ![featureId + 1] =
                            BinarizedColumn(featureId, Len(values), nanMode, borders,
                                            CompressVector(
                                                BinarizeLine(values, nanMode, borders),
                                                IntLog2(binCount)),
                                            GetFeatureName(featureId))]
    /\ UNCHANGED <<FeatureBlobs, NanModes, FeaturesManager, featureNames, lock>>
    /\ TaskFrame

(* lines 272-276 *)
TaskFreeMutKeep(featureId) ==
    /\ pc = "compile"
    /\ featureId + 1 \in 1..Len(task)
    /\ task[featureId + 1] = "free"
    /\ task' = [task EXCEPT ![featureId + 1] = "done"]
    /\ UNCHANGED <<FeatureBlobs, Borders, NanModes, FeaturesManager, featureNames,
                   featureColumns, lock>>
    /\ TaskFrame

TaskFreeMutAll(featureId) ==
    /\ pc = "compile"
    /\ featureId + 1 \in 1..Len(task)
    /\ task[featureId + 1] = "free"
    /\ FeatureBlobs' = [f \in 1..Len(FeatureBlobs) |-> <<>>]
    /\ task' = [task EXCEPT ![featureId + 1] = "done"]
    /\ UNCHANGED <<Borders, NanModes, FeaturesManager, featureNames, featureColumns, lock>>
    /\ TaskFrame

TaskFree(featureId) ==
    /\ pc = "compile"
    /\ featureId + 1 \in 1..Len(task)
    /\ task[featureId + 1] = "free"
    /\ FeatureBlobs' = [FeatureBlobs EXCEPT ![featureId + 1] = <<>>]
    /\ task' = [task EXCEPT ![featureId + 1] = "done"]
    /\ UNCHANGED <<Borders, NanModes, FeaturesManager, featureNames, featureColumns, lock>>
    /\ TaskFrame

(***************************************************************************)
(* Finish, after the barrier: the reconciliation loop (lines 279-293), the *)
(* indices remap, the target borders, the feature names, the validation    *)
(* of the weights and of the target, and IsDone.                           *)
(***************************************************************************)
ReconcileMutUnordered(st, f, columns) ==
    [st EXCEPT !.features =
        @ \o SelectSeq([k \in 1..Len(columns) |-> columns[Len(columns) + 1 - k]],
                       LAMBDA col : col.kind # "null")]

ReconcileMutLastWriter(st, f, columns) ==
    [st EXCEPT !.features = @ \o SelectSeq(columns, LAMBDA col : col.kind # "null"),
               !.manager.Borders =
                   [id \in DOMAIN @ |->
                       IF id + 1 \in 1..Len(columns) /\ columns[id + 1].kind = "float"
                       THEN st.borders[id + 1] ELSE @[id]],
               !.manager.HasBorders =
                   @ \cup {id \in FeatureIds : /\ id + 1 \in 1..Len(columns)
                                                /\ columns[id + 1].kind = "float"}]

RECURSIVE Reconcile(_, _, _)
Reconcile(st, f, columns) ==
    IF f > Len(columns) THEN st
    ELSE LET featureId == f - 1
             registers == /\ FeatureTypes[f] # Categorical
                          /\ columns[f] # NullColumn
                          /\ featureId \notin st.manager.HasBorders
             st1 == IF registers
                    THEN [st EXCEPT !.manager.Borders[featureId] = st.borders[f],
                                    !.manager.HasBorders = @ \cup {featureId},
                                    !.borders[f] = <<>>]
                    ELSE st
             st2 == IF columns[f] # NullColumn
                    THEN [st1 EXCEPT !.features = Append(@, columns[f])]
                    ELSE st1
         IN Reconcile(st2, f + 1, columns)

BuildIndicesRemap(features) == [i \in 1..Len(features) |-> features[i].featureId]

NoPairs(pairs) == IsConstant(pairs)

ValidateTargetMutPass(targets, pairs) == ErrNone

ValidateTarget(targets, pairs) ==
    IF IsConstant(targets) /\ NoPairs(pairs) THEN ErrConstTarget ELSE ErrNone

ValidateDataset(weights, targets, pairs) ==
    IF ValidateWeights(weights) # ErrNone THEN ValidateWeights(weights)
    ELSE ValidateTarget(targets, pairs)

TaskError == IF \E f \in 1..Len(task) : task[f] = ErrSize THEN ErrSize ELSE ErrNanMode

(* line 277: ParallelFor returns when every task has ended. *)
BarrierMutNone == TRUE

Barrier == \A f \in 1..Len(task) : TaskEnded(task[f])

TaskFailed == \E f \in 1..Len(task) : task[f] \in {ErrSize, ErrNanMode}

FinishEnd ==
    /\ pc = "compile"
    /\ Barrier
    /\ pc' = "idle"
    /\ featureNames' = <<>>
    /\ featureColumns' = <<>>
    /\ task' = <<>>
    /\ IF TaskFailed
       THEN /\ error' = TaskError
            /\ UNCHANGED <<DataProvider, FeaturesManager, Borders, IsDone>>
       ELSE LET st == Reconcile([features |-> DataProvider.Features,
                                 manager |-> FeaturesManager,
                                 borders |-> Borders], 1, featureColumns)
                err == ValidateDataset(DataProvider.Weights, DataProvider.Targets, Pairs)
            IN /\ DataProvider' =
                     [DataProvider EXCEPT !.Features = st.features,
                                          !.IndicesRemap = BuildIndicesRemap(st.features),
                                          !.FeatureNames = featureNames]
               /\ FeaturesManager' =
                     IF ~IsTest
                     THEN [st.manager EXCEPT
                             !.TargetBorders = BuildBorders(DataProvider.Targets)]
                     ELSE st.manager
               /\ Borders' = st.borders
               /\ error' = err
               /\ IsDone' = IF err = ErrNone THEN TRUE ELSE IsDone
    /\ UNCHANGED <<config, ShuffleFlag, Cursor, FeatureBlobs, FeatureTypes, NanModes,
                   Pairs, Labels, lock, snap>>

(***************************************************************************)
(* Calls made by the single ingestion thread.  Counted(A) is a value write *)
(* within the budget of MaxWrites writes; Call(A) is any other call.       *)
(***************************************************************************)
Rows == 0..(MaxDocs - 1)

Call(A) == A /\ UNCHANGED <<writes, compress>>

Counted(A) == writes < MaxWrites /\ A /\ writes' = writes + 1 /\ UNCHANGED compress

(* Ingestion is complete before Finish is called: no block and no value is
   added between a call of Finish and the next Start. *)
Ingesting == ~snap.taken

(* A Finish that raised is not called again. *)
FinishFailed == snap.taken /\ ~IsDone

(* The documents come in one block. *)
FirstBlock == Ingesting /\ Len(DataProvider.Targets) = 0

(* Start is called once, on the constructed builder. *)
Constructed == Len(FeatureBlobs) = 0 /\ ~snap.taken

(***************************************************************************)
(* SpecOrder: the Document Order.  A learn builder with one categorical    *)
(* feature; the caller writes timestamps, group ids and targets, with any  *)
(* shuffle flag and seed.                                                  *)
(***************************************************************************)
TimestampVals == {0, 1, 2}
QueryIdVals == {0, 1}
TargetVals == {0, 1}

OrderInputs ==
    [isTest |-> {FALSE}, shuffle |-> BOOLEAN, seeds |-> 0..MaxSeed, threads |-> {1},
     ignore |-> {{}}, binarized |-> {NoBinarizedFeatures}, helper |-> {FALSE}]

InitOrder == InitP(OrderInputs)

NextOrder ==
    \/ Constructed /\ Call(Start(1, 0, {0}))
    \/ \E blockSize \in 1..MaxDocs : Ingesting /\ Call(StartNextBlock(blockSize))
    \/ \E i \in Rows, v \in TimestampVals : Ingesting /\ Call(AddTimestamp(i, v))
    \/ \E i \in Rows, v \in QueryIdVals : Ingesting /\ Call(AddQueryId(i, v))
    \/ \E i \in Rows, v \in TargetVals : Ingesting /\ Call(AddTarget(i, v))
    \/ ~FinishFailed /\ Call(FinishBegin(TargetVals, {1}))
    \/ \E f \in FeatureIds : Call(TaskBegin(f))
    \/ \E f \in FeatureIds : Call(TaskCat(f))
    \/ \E f \in FeatureIds : Call(TaskFree(f))
    \/ Call(FinishEnd)

SpecOrder == InitOrder /\ [][NextOrder]_vars

(***************************************************************************)
(* Properties of the Document Order.                                       *)
(***************************************************************************)
Finishing == snap.taken

SomeTimestampNonZero(timestamp) == \E i \in 1..Len(timestamp) : timestamp[i] # 0

NonTrivialGroups(qids) == \E i \in 1..Len(qids) : qids[i] # i - 1

IsIdentity(order) == \A i \in 1..Len(order) : order[i] = i - 1

(* C2: the Document Order that Finish produces has length documentCount and
   holds every row index of [0, documentCount) exactly once, whichever
   ordering branch is taken. *)
C2_OrderIsBijection ==
    Finishing =>
        /\ Len(DataProvider.Order) = Len(DataProvider.Targets)
        /\ \A r \in 0..(Len(DataProvider.Targets) - 1) :
              Cardinality({i \in 1..Len(DataProvider.Order) : DataProvider.Order[i] = r}) = 1

C2_Witness ==
    /\ IsDone
    /\ snap.ShuffleFlag
    /\ DataProvider.HasShuffleSeed
    /\ snap.hasQueryIds
    /\ Len(DataProvider.Order) = MaxDocs
    /\ ~IsIdentity(DataProvider.Order)

(* C4: when some timestamp is non-zero, timestamps are non-decreasing along
   the Document Order and rows with equal timestamps keep their original
   relative order. *)
C4_TimestampStableSort ==
    (Finishing /\ SomeTimestampNonZero(snap.dp.Timestamp)) =>
        LET ts == snap.dp.Timestamp
            order == DataProvider.Order
        IN /\ Len(order) = Len(ts)
           /\ \A i, j \in 1..Len(order) :
                 i < j => /\ ts[order[i] + 1] <= ts[order[j] + 1]
                          /\ (ts[order[i] + 1] = ts[order[j] + 1] => order[i] < order[j])

C4_Witness ==
    /\ IsDone
    /\ SomeTimestampNonZero(snap.dp.Timestamp)
    /\ \E i, j \in 1..Len(snap.dp.Timestamp) :
          i # j /\ snap.dp.Timestamp[i] = snap.dp.Timestamp[j]

(* C5: when some timestamp is non-zero the Document Order is the one every
   other shuffle flag and seed would give on the same data, and the shuffle
   block is not executed (no shuffle seed is set, the flag is cleared). *)
C5_ShuffleHasNoEffect ==
    (Finishing /\ SomeTimestampNonZero(snap.dp.Timestamp)) =>
        /\ \A flag \in BOOLEAN, seed \in 0..MaxSeed :
              FinishOrder(snap.dp.Timestamp, snap.dp.QueryIds, flag, seed,
                          Len(snap.dp.Targets)) = DataProvider.Order
        /\ ~DataProvider.HasShuffleSeed
        /\ ~ShuffleFlag

C5_Witness ==
    /\ IsDone
    /\ SomeTimestampNonZero(snap.dp.Timestamp)
    /\ snap.ShuffleFlag
    /\ Seed = 1
    /\ Len(DataProvider.Order) = MaxDocs

(* C6: with shuffling requested, all timestamps zero and non-trivial group
   ids, the rows of every group are contiguous in the Document Order and
   keep their original relative order. *)
C6_GroupConsistentShuffle ==
    (/\ Finishing
     /\ snap.ShuffleFlag
     /\ ~SomeTimestampNonZero(snap.dp.Timestamp)
     /\ NonTrivialGroups(snap.dp.QueryIds)) =>
        LET qids == snap.dp.QueryIds
            order == DataProvider.Order
        IN /\ Len(order) = Len(qids)
           /\ \A i, j \in 1..Len(order) :
                 (i < j /\ qids[order[i] + 1] = qids[order[j] + 1]) =>
                     /\ order[i] < order[j]
                     /\ \A k \in i..j : qids[order[k] + 1] = qids[order[i] + 1]

C6_Witness ==
    /\ IsDone
    /\ snap.ShuffleFlag
    /\ Seed = 1
    /\ ~SomeTimestampNonZero(snap.dp.Timestamp)
    /\ \E i, j \in 1..Len(snap.dp.QueryIds) :
          i # j /\ snap.dp.QueryIds[i] = snap.dp.QueryIds[j]

(***************************************************************************)
(* SpecApply: the Document Order applied to the per-document vectors and   *)
(* to the columns.  A learn builder with a categorical feature (0), a      *)
(* second feature (1) that is a raw float or a pre-binarized float, and    *)
(* one baseline; the caller makes at most MaxWrites value writes.          *)
(***************************************************************************)
PrebinnedFeature1 ==
    [BinarizedFeatureIds |-> <<1>>, Borders |-> <<<<0>>>>, NanModes |-> <<NanForbidden>>]

ApplyInputs ==
    [isTest |-> {FALSE}, shuffle |-> BOOLEAN, seeds |-> 0..MaxSeed, threads |-> {1},
     ignore |-> {{}}, binarized |-> {NoBinarizedFeatures, PrebinnedFeature1}, helper |-> {FALSE}]

InitApply == InitP(ApplyInputs)

NextApply ==
    \/ Constructed /\ Call(Start(2, 1, {0}))
    \/ \E blockSize \in 1..MaxDocs : Ingesting /\ Call(StartNextBlock(blockSize))
    \/ \E i \in Rows : Ingesting /\ Counted(AddTarget(i, 1))
    \/ \E i \in Rows : Ingesting /\ Counted(AddWeight(i, 2))
    \/ \E i \in Rows : Ingesting /\ Counted(AddQueryId(i, 0))
    \/ \E i \in Rows : Ingesting /\ Counted(AddTimestamp(i, 1))
    \/ \E i \in Rows : Ingesting /\ Counted(AddBaseline(i, 0, 1))
    \/ \E i \in Rows, f \in FeatureIds :
         Ingesting /\ Counted(WriteBinarizedFeatureToBlobImpl(i, f, 1))
    \/ \E i \in Rows, f \in FeatureIds :
         Ingesting /\ Counted(WriteFloatOrCatFeatureToBlobImpl(i, f, 1))
    \/ ~FinishFailed /\ Call(FinishBegin({0, 1}, {1, 2}))
    \/ \E f \in FeatureIds : Call(TaskBegin(f))
    \/ \E f \in FeatureIds : Call(TaskCat(f))
    \/ \E f \in FeatureIds : Call(TaskBin(f))
    \/ \E f \in FeatureIds : Call(TaskBinLock(f))
    \/ \E f \in FeatureIds : Call(TaskBinNanMode(f))
    \/ \E f \in FeatureIds : Call(TaskFloat(f))
    \/ \E f \in FeatureIds : Call(TaskFloatLock(f))
    \/ \E f \in FeatureIds : Call(TaskFloatNanMode(f))
    \/ \E f \in FeatureIds : Call(TaskFloatBorders(f))
    \/ \E f \in FeatureIds : Call(TaskFree(f))
    \/ Call(FinishEnd)

SpecApply == InitApply /\ [][NextApply]_vars

(***************************************************************************)
(* Properties of the reordering.                                           *)
(***************************************************************************)
(* The vector `now` is the vector `before` read through the Document Order. *)
ReadThroughOrder(now, before) ==
    /\ Len(now) = Len(before)
    /\ \A i \in 1..Len(now) : now[i] = before[DataProvider.Order[i] + 1]

(* The bins a column holds at each position, from the raw blob value of the
   row the Document Order puts there. *)
ExpectedBins(col, blob) ==
    [i \in 1..Len(DataProvider.Order) |->
        LET raw == blob[DataProvider.Order[i] + 1]
        IN IF col.kind = "cat"
           THEN HashCode(FeaturesManager.CatFeaturesPerfectHash[col.featureId], raw)
           ELSE IF FeatureTypes[col.featureId + 1] = BinarizedFloat
           THEN raw
           ELSE BinOf(raw, col.nanMode, col.borders)]

ColumnBits(col) ==
    IF col.kind = "cat" THEN IntLog2(col.uniqueValues)
    ELSE IntLog2(GetBinCount(col.borders, col.nanMode))

ColumnReadThroughOrder(col) ==
    /\ col.size = Len(DataProvider.Order)
    /\ col.data = CompressVector(ExpectedBins(col, snap.blobs[col.featureId + 1]),
                                 ColumnBits(col))

OrderApplied == Finishing /\ error # ErrNoQueryId

(* C3: every per-document vector and every column compiled by the call is
   read through one and the same Document Order: position i holds what
   original row Order[i] held. *)
C3_OneOrderForAll ==
    OrderApplied =>
        /\ ReadThroughOrder(DataProvider.Targets, snap.dp.Targets)
        /\ ReadThroughOrder(DataProvider.Weights, snap.dp.Weights)
        /\ ReadThroughOrder(DataProvider.SubgroupIds, snap.dp.SubgroupIds)
        /\ ReadThroughOrder(DataProvider.Timestamp, snap.dp.Timestamp)
        /\ IF snap.hasQueryIds
           THEN ReadThroughOrder(DataProvider.QueryIds, snap.dp.QueryIds)
           ELSE DataProvider.QueryIds = <<>>
        /\ Len(DataProvider.Baseline) = Len(snap.dp.Baseline)
        /\ \A b \in 1..Len(DataProvider.Baseline) :
              ReadThroughOrder(DataProvider.Baseline[b], snap.dp.Baseline[b])
        /\ \A f \in 1..Len(featureColumns) :
              featureColumns[f] # NullColumn => ColumnReadThroughOrder(featureColumns[f])
        /\ \A k \in 1..Len(DataProvider.Features) :
              ColumnReadThroughOrder(DataProvider.Features[k])

C3_Witness ==
    /\ IsDone
    /\ ~IsIdentity(DataProvider.Order)
    /\ Len(DataProvider.Features) = 2
    /\ \A k \in 1..Len(DataProvider.Features) :
          LET col == DataProvider.Features[k]
              bins == DecompressVector(col.data, ColumnBits(col), col.size)
          IN \E i, j \in 1..Len(bins) : bins[i] # bins[j]
    /\ DataProvider.Targets # snap.dp.Targets

(***************************************************************************)
(* SpecValidate: the checks of Finish.  A learn builder with one           *)
(* categorical feature; the caller writes weights, targets, group ids and  *)
(* categorical values of one block, sets a pair list, and calls Finish,    *)
(* possibly again after it succeeded.                                      *)
(***************************************************************************)
WeightVals == {-1, 0, 1}

PairVals == {<<0, 1>>, <<1, 0>>}

PairLists == SeqsUpTo(PairVals, MaxPairs)

ValidateInputs ==
    [isTest |-> {FALSE}, shuffle |-> {FALSE}, seeds |-> {0}, threads |-> {1},
     ignore |-> {{}}, binarized |-> {NoBinarizedFeatures}, helper |-> {FALSE}]

InitValidate == InitP(ValidateInputs)

NextValidate ==
    \/ Constructed /\ Call(Start(1, 0, {0}))
    \/ \E blockSize \in 1..MaxDocs : FirstBlock /\ Call(StartNextBlock(blockSize))
    \/ \E i \in Rows, v \in WeightVals : Ingesting /\ Call(AddWeight(i, v))
    \/ \E i \in Rows : Ingesting /\ Call(AddTarget(i, 1))
    \/ \E i \in Rows : Ingesting /\ Call(AddQueryId(i, 0))
    \/ \E i \in Rows : Ingesting /\ Call(WriteFloatOrCatFeatureToBlobImpl(i, 0, 1))
    \/ \E pairs \in PairLists : Ingesting /\ Call(SetPairs(pairs))
    \/ ~FinishFailed /\ Call(FinishBegin(TargetVals, WeightVals))
    \/ \E f \in FeatureIds : Call(TaskBegin(f))
    \/ \E f \in FeatureIds : Call(TaskCat(f))
    \/ \E f \in FeatureIds : Call(TaskFree(f))
    \/ Call(FinishEnd)

SpecValidate == InitValidate /\ [][NextValidate]_vars

(***************************************************************************)
(* Properties of the checks of Finish.                                     *)
(***************************************************************************)
(* Finish has returned or raised. *)
Returned == snap.taken /\ pc = "idle"

(* C1: once Finish has succeeded, a later call of Finish raises the
   can't-finish-more-than-once error and leaves the dataset, the feature
   blobs and the shared metadata store as they were. *)
C1_FinishTwiceFails ==
    [][(IsDone /\ FinishBegin(TargetVals, WeightVals)) =>
          /\ error' = ErrFinishTwice
          /\ UNCHANGED <<DataProvider, FeatureBlobs, FeaturesManager, IsDone>>]_vars

C1_Witness == IsDone /\ error = ErrFinishTwice /\ Len(DataProvider.Features) = 1

(* The verdict on a weight vector: negative anywhere, else all zero, else
   valid. *)
WeightsVerdict(weights) ==
    IF \E i \in 1..Len(weights) : weights[i] < 0 THEN ErrNegativeWeight
    ELSE IF \A i \in 1..Len(weights) : weights[i] = 0 THEN ErrZeroWeights
    ELSE ErrNone

(* C7: a Finish that reaches the validation raises the negative-weight
   error when any weight is negative, otherwise the all-zero error when
   every weight is zero (an empty weight vector included), and raises
   neither when the weights are non-negative and not all zero. *)
C7_WeightsValidation ==
    /\ (Returned /\ ~IsDone /\ error # ErrNoQueryId) =>
          IF WeightsVerdict(snap.dp.Weights) # ErrNone
          THEN error = WeightsVerdict(snap.dp.Weights)
          ELSE error \notin {ErrNegativeWeight, ErrZeroWeights}
    /\ IsDone => WeightsVerdict(snap.dp.Weights) = ErrNone

C7_Witness ==
    /\ Returned
    /\ error = ErrNegativeWeight
    /\ Len(snap.dp.Weights) = 2
    /\ snap.dp.Weights[1] = 0
    /\ snap.dp.Weights[2] = -1

C7_WitnessEmpty == Returned /\ error = ErrZeroWeights /\ Len(snap.dp.Weights) = 0

(* C8: with a constant target and no pairs Finish does not succeed, and
   when the weights are valid it raises the constant-target error. *)
C8_ConstTargetNoPairsFails ==
    (Returned /\ IsConstant(snap.dp.Targets) /\ Len(Pairs) = 0) =>
        /\ ~IsDone
        /\ WeightsVerdict(snap.dp.Weights) = ErrNone => error = ErrConstTarget

C8_Witness ==
    /\ Returned
    /\ error = ErrConstTarget
    /\ Len(Pairs) = 0
    /\ Len(snap.dp.Targets) = MaxDocs
    /\ WeightsVerdict(snap.dp.Weights) = ErrNone
    /\ Len(DataProvider.Features) = 1

(* C9: with a constant target, a non-empty pair list, group ids present and
   valid weights, Finish succeeds. *)
C9_ConstTargetWithPairsSucceeds ==
    (/\ Returned
     /\ IsConstant(snap.dp.Targets)
     /\ Len(Pairs) # 0
     /\ snap.hasQueryIds
     /\ WeightsVerdict(snap.dp.Weights) = ErrNone) => IsDone

(* C10: with a non-empty pair list and no group ids Finish raises the
   query-id error with no pair structure derived, no feature compiled and
   no blob released; with group ids the per-group pair structures are
   derived. *)
C10_PairsNeedQueryIds ==
    /\ (snap.taken /\ Len(Pairs) # 0 /\ ~snap.hasQueryIds) =>
          /\ error = ErrNoQueryId
          /\ pc = "idle"
          /\ ~IsDone
          /\ DataProvider.QueryPairs = snap.dp.QueryPairs
          /\ DataProvider.Features = snap.dp.Features
          /\ featureColumns = <<>>
          /\ FeatureBlobs = snap.blobs
    /\ (snap.taken /\ Len(Pairs) # 0 /\ snap.hasQueryIds) =>
          DataProvider.QueryPairs = FillQueryPairs(snap.dp.QueryIds, Pairs)

C10_Witness ==
    /\ error = ErrNoQueryId
    /\ snap.taken
    /\ Len(Pairs) # 0
    /\ ~snap.hasQueryIds
    /\ Len(FeatureBlobs) = 1
    /\ Len(FeatureBlobs[1]) = MaxDocs

C10_WitnessDerived ==
    /\ IsDone
    /\ snap.hasQueryIds
    /\ Len(Pairs) = MaxPairs
    /\ \E q \in DOMAIN DataProvider.QueryPairs : Len(DataProvider.QueryPairs[q]) = MaxPairs

(***************************************************************************)
(* Properties of the dataset a Finish leaves.                              *)
(***************************************************************************)
ValidationErrors == {ErrNegativeWeight, ErrZeroWeights, ErrConstTarget, ErrNoQueryId}

(* C11: a Finish that raised a validation error (negative weight, all
   weights zero, constant target without pairs, pairs without group ids)
   leaves the dataset's list of compiled columns empty. *)
C11_NoPartialDataset ==
    (Returned /\ error \in ValidationErrors) => DataProvider.Features = <<>>

(***************************************************************************)
(* SpecCompile: the parallel compile.  A learn builder with a categorical  *)
(* feature (0), a feature (1) that is a raw float or a pre-binarized float *)
(* with or without borders, and a raw float feature (2); up to MaxThreads  *)
(* worker threads; the caller makes at most MaxWrites value writes into    *)
(* one block.                                                              *)
(***************************************************************************)
PrebinnedNoBorders1 ==
    [BinarizedFeatureIds |-> <<1>>, Borders |-> <<<<>>>>, NanModes |-> <<NanForbidden>>]

CompileInputs ==
    [isTest |-> {FALSE}, shuffle |-> {FALSE}, seeds |-> {0}, threads |-> 1..MaxThreads,
     ignore |-> {{}},
     binarized |-> {NoBinarizedFeatures, PrebinnedFeature1, PrebinnedNoBorders1},
     helper |-> {FALSE}]

InitCompile == InitP(CompileInputs)

NextCompile ==
    \/ Constructed /\ Call(Start(3, 0, {0}))
    \/ \E blockSize \in 1..MaxDocs : FirstBlock /\ Call(StartNextBlock(blockSize))
    \/ \E i \in Rows : Ingesting /\ Counted(AddTarget(i, 1))
    \/ \E i \in Rows, f \in FeatureIds :
         Ingesting /\ Counted(WriteBinarizedFeatureToBlobImpl(i, f, 1))
    \/ \E i \in Rows, f \in FeatureIds :
         Ingesting /\ Counted(WriteFloatOrCatFeatureToBlobImpl(i, f, 1))
    \/ ~FinishFailed /\ Call(FinishBegin(TargetVals, WeightVals))
    \/ \E f \in FeatureIds : Call(TaskBegin(f))
    \/ \E f \in FeatureIds : Call(TaskCat(f))
    \/ \E f \in FeatureIds : Call(TaskBin(f))
    \/ \E f \in FeatureIds : Call(TaskBinLock(f))
    \/ \E f \in FeatureIds : Call(TaskBinNanMode(f))
    \/ \E f \in FeatureIds : Call(TaskFloat(f))
    \/ \E f \in FeatureIds : Call(TaskFloatLock(f))
    \/ \E f \in FeatureIds : Call(TaskFloatNanMode(f))
    \/ \E f \in FeatureIds : Call(TaskFloatBorders(f))
    \/ \E f \in FeatureIds : Call(TaskFree(f))
    \/ Call(FinishEnd)

SpecCompile == InitCompile /\ [][NextCompile]_vars

(***************************************************************************)
(* Properties of the parallel compile and of the reconciliation.           *)
(***************************************************************************)
(* The columns the tasks produced, in feature-index order. *)
ProducedColumns == SelectSeq(featureColumns, LAMBDA col : col # NullColumn)

(* C12: when Finish succeeds, the dataset's compiled-column list is the
   columns the compile tasks produced, none absent, each once, in strictly
   increasing feature-index order, whatever order the tasks ended in. *)
C12_ColumnsInFeatureOrder ==
    [][(pc = "compile" /\ IsDone') =>
          /\ DataProvider.Features' = ProducedColumns
          /\ \A k \in 1..Len(DataProvider.Features') :
                /\ DataProvider.Features'[k] # NullColumn
                /\ \A j \in 1..(k - 1) :
                      DataProvider.Features'[j].featureId
                          < DataProvider.Features'[k].featureId]_vars

C12_Witness ==
    /\ IsDone
    /\ BuildThreads = MaxThreads
    /\ Len(DataProvider.Features) = 2
    /\ DataProvider.Features[1].featureId = 0
    /\ DataProvider.Features[2].featureId = 2

(* The borders a raw float feature gets: the recorded ones, else (learn)
   the ones built from its values. *)
ExpectedBorders(f) ==
    IF f \in snap.manager.HasBorders THEN snap.manager.Borders[f]
    ELSE IF IsTest THEN <<>>
    ELSE BuildBorders(snap.blobs[f + 1])

(* A degenerate feature: a categorical feature with fewer than 2 distinct
   values, a pre-binarized or raw float feature with no borders. *)
Degenerate(f) ==
    IF FeatureTypes[f + 1] = Categorical
    THEN Cardinality(Range(snap.blobs[f + 1])
                     \cup Range(snap.manager.CatFeaturesPerfectHash[f])) < 2
    ELSE IF FeatureTypes[f + 1] = BinarizedFloat
    THEN \E i \in 1..Len(BinarizedFeaturesMetaInfo.BinarizedFeatureIds) :
            /\ BinarizedFeaturesMetaInfo.BinarizedFeatureIds[i] = f
            /\ Len(BinarizedFeaturesMetaInfo.Borders[i]) = 0
    ELSE Len(ExpectedBorders(f)) = 0

(* Every feature of the Finish call had values in its blob. *)
HasValues ==
    /\ Len(snap.blobs) = Len(FeatureTypes)
    /\ \A f \in 1..Len(snap.blobs) : Len(snap.blobs[f]) > 0

ColumnsOf(f) ==
    {k \in 1..Len(DataProvider.Features) : DataProvider.Features[k].featureId = f}

(* C14: a degenerate feature raises nothing; Finish omits its column,
   records the name of every feature at its index in the feature-name list,
   and produces the column of every other feature from that feature's own
   values. *)
C14_DegenerateFeatureDropped ==
    (Returned /\ HasValues) =>
        /\ error \notin {ErrSize, ErrNanMode}
        /\ Len(DataProvider.FeatureNames) = Len(FeatureTypes)
        /\ \A f \in 0..(Len(FeatureTypes) - 1) :
              /\ DataProvider.FeatureNames[f + 1] = GetFeatureName(f)
              /\ Degenerate(f) => ColumnsOf(f) = {}
              /\ ~Degenerate(f) =>
                    /\ Cardinality(ColumnsOf(f)) = 1
                    /\ \A k \in ColumnsOf(f) :
                          /\ ColumnReadThroughOrder(DataProvider.Features[k])
                          /\ FeatureTypes[f + 1] = Float =>
                                DataProvider.Features[k].borders = ExpectedBorders(f)

C14_Witness ==
    /\ IsDone
    /\ Len(FeatureTypes) = 3
    /\ HasValues
    /\ BinarizedFeaturesMetaInfo = PrebinnedNoBorders1
    /\ Degenerate(0)
    /\ Degenerate(1)
    /\ ~Degenerate(2)
    /\ Len(DataProvider.Features) = 1
    /\ DataProvider.FeatureNames = <<GetFeatureName(0), GetFeatureName(1), GetFeatureName(2)>>

(* The feature ids whose task is at one of the given positions. *)
TasksAt(positions) == {f \in FeatureIds : f + 1 \in 1..Len(task) /\ task[f + 1] \in positions}

(* A task at binNanMode or floatNanMode is inside the locked block and its
   next step reads and writes the NaN-mode cache (lines 220, 239). *)
NanModeCacheUnderLock ==
    /\ \A f \in TasksAt({"binNanMode", "floatNanMode"}) : lock = f
    /\ Cardinality(TasksAt({"binNanMode", "floatNanMode"})) <= 1

(* A task at floatBorders is at line 242: its next step reads the border
   cache (lines 242-243). *)
BorderCacheUnderLock == \A f \in TasksAt({"floatBorders"}) : lock = f

(* A task that reorders, binarizes, packs or frees does not hold the lock. *)
LockNotHeldInCompute ==
    \A f \in TasksAt({"todo", "cat", "bin", "float", "free", "done"}) : lock # f

(* C16: during the compile every access of a worker to the NaN-mode cache
   or to the border cache of the store is made with the lock held, at most
   one worker holds the lock, and the lock is not held during the
   per-feature compute. *)
C16_StoreAccessUnderLock ==
    pc = "compile" =>
        /\ NanModeCacheUnderLock
        /\ BorderCacheUnderLock
        /\ LockNotHeldInCompute

C16_HoldsForNanModeCache ==
    pc = "compile" => NanModeCacheUnderLock /\ LockNotHeldInCompute

(* A step appends a column to the dataset or registers a border in the
   store. *)
ReconcileStep ==
    \/ DataProvider.Features' # DataProvider.Features
    \/ FeaturesManager.HasBorders' # FeaturesManager.HasBorders
    \/ FeaturesManager.Borders' # FeaturesManager.Borders

(* C17: the reconciliation starts only after every per-feature task has
   completed: a step that appends a column to the dataset or registers a
   border is taken in a state of the compile where no task is still to be
   started or in progress. *)
C17_ReconcileAfterBarrier ==
    [][ReconcileStep =>
          /\ pc = "compile"
          /\ \A f \in 1..Len(task) : task[f] \in {"done", ErrSize, ErrNanMode}]_vars

C17_Witness ==
    /\ Returned /\ IsDone
    /\ BuildThreads = MaxThreads
    /\ Len(DataProvider.Features) = 2
    /\ FeaturesManager.HasBorders # snap.manager.HasBorders

(***************************************************************************)
(* SpecShared: builders that share one metadata store.  Each builder has a *)
(* categorical feature (0) and a feature (1) that is a raw float or a      *)
(* pre-binarized float, one worker thread and one block; the first is a    *)
(* learn builder, a further builder is constructed once the current one's  *)
(* Finish has returned or raised.  The callers make at most MaxWrites      *)
(* value writes in all.                                                    *)
(***************************************************************************)
FeatureVals == {1, 2}

PrebinnedFeature1Min ==
    [BinarizedFeatureIds |-> <<1>>, Borders |-> <<<<0>>>>, NanModes |-> <<NanMin>>]

SharedInputs ==
    [isTest |-> {FALSE}, shuffle |-> {FALSE}, seeds |-> {0}, threads |-> {1},
     ignore |-> {{}}, binarized |-> {NoBinarizedFeatures}, helper |-> {FALSE}]

InitShared == InitP(SharedInputs)

NextShared ==
    \/ \E isTest \in BOOLEAN,
          binarized \in {NoBinarizedFeatures, PrebinnedFeature1, PrebinnedFeature1Min} :
         snap.taken /\ Call(NewBuilder(isTest, FALSE, binarized))
    \/ Constructed /\ Call(Start(2, 0, {0}))
    \/ \E blockSize \in 1..MaxDocs : FirstBlock /\ Call(StartNextBlock(blockSize))
    \/ Ingesting /\ Counted(AddTarget(0, 1))
    \/ \E i \in Rows, f \in FeatureIds, v \in FeatureVals :
         Ingesting /\ Counted(WriteFloatOrCatFeatureToBlobImpl(i, f, v))
    \/ ~FinishFailed /\ Call(FinishBegin(TargetVals, WeightVals))
    \/ \E f \in FeatureIds : Call(TaskBegin(f))
    \/ \E f \in FeatureIds : Call(TaskCat(f))
    \/ \E f \in FeatureIds : Call(TaskBin(f))
    \/ \E f \in FeatureIds : Call(TaskBinLock(f))
    \/ \E f \in FeatureIds : Call(TaskBinNanMode(f))
    \/ \E f \in FeatureIds : Call(TaskFloat(f))
    \/ \E f \in FeatureIds : Call(TaskFloatLock(f))
    \/ \E f \in FeatureIds : Call(TaskFloatNanMode(f))
    \/ \E f \in FeatureIds : Call(TaskFloatBorders(f))
    \/ \E f \in FeatureIds : Call(TaskFree(f))
    \/ Call(FinishEnd)

SpecShared == InitShared /\ [][NextShared]_vars

(***************************************************************************)
(* Properties of the shared metadata store.                                *)
(***************************************************************************)
(* C13: borders recorded in the store for a feature are never changed or
   removed by any later step of any builder, and a step records borders for
   a feature only if the store held none for it and the feature's compile
   produced a column. *)
C13_BordersFirstWriterWins ==
    [][\A f \in FeatureIds :
          /\ f \in FeaturesManager.HasBorders =>
                /\ f \in FeaturesManager'.HasBorders
                /\ FeaturesManager'.Borders[f] = FeaturesManager.Borders[f]
          /\ (f \notin FeaturesManager.HasBorders /\ f \in FeaturesManager'.HasBorders) =>
                /\ pc = "compile"
                /\ f + 1 \in 1..Len(featureColumns)
                /\ featureColumns[f + 1] # NullColumn
                /\ FeaturesManager'.Borders[f] = Borders[f + 1]]_vars

(* A later builder whose own borders for feature 1 differ from the recorded
   ones has finished, and the recorded ones stand. *)
C13_Witness ==
    /\ snap.taken
    /\ pc = "idle"
    /\ 1 \in snap.manager.HasBorders
    /\ FeatureTypes = <<Categorical, BinarizedFloat>>
    /\ Len(DataProvider.Features) > 0
    /\ Borders[2] # FeaturesManager.Borders[1]
    /\ FeaturesManager.Borders[1] = snap.manager.Borders[1]

(* C15: a Finish of a test builder leaves the perfect hash of every
   categorical feature (its mapping and its distinct-value count) as it was
   before the call. *)
C15_TestModeAssignsNoCodes ==
    (snap.taken /\ IsTest) =>
        FeaturesManager.CatFeaturesPerfectHash = snap.manager.CatFeaturesPerfectHash

(***************************************************************************)
(* SpecLifecycle: one builder whose caller may call any operation at any   *)
(* time, a Start or a further block after a Finish included.  Feature 0 is *)
(* categorical, feature 1 is raw float or pre-binarized.                   *)
(***************************************************************************)
LifecycleInputs ==
    [isTest |-> {FALSE}, shuffle |-> {FALSE}, seeds |-> {0}, threads |-> {1},
     ignore |-> {{}}, binarized |-> {NoBinarizedFeatures, PrebinnedFeature1},
     helper |-> {FALSE}]

InitLifecycle == InitP(LifecycleInputs)

NextLifecycle ==
    \/ Call(Start(2, 0, {0}))
    \/ \E blockSize \in 1..MaxDocs : Call(StartNextBlock(blockSize))
    \/ \E i \in Rows : Counted(AddTarget(i, 1))
    \/ \E i \in Rows : Counted(WriteBinarizedFeatureToBlobImpl(i, 1, 1))
    \/ \E i \in Rows, f \in {0, 1} : Counted(WriteFloatOrCatFeatureToBlobImpl(i, f, 1))
    \/ Call(FinishBegin(TargetVals, WeightVals))
    \/ \E f \in FeatureIds : Call(TaskBegin(f))
    \/ \E f \in FeatureIds : Call(TaskCat(f))
    \/ \E f \in FeatureIds : Call(TaskBin(f))
    \/ \E f \in FeatureIds : Call(TaskBinLock(f))
    \/ \E f \in FeatureIds : Call(TaskBinNanMode(f))
    \/ \E f \in FeatureIds : Call(TaskFloat(f))
    \/ \E f \in FeatureIds : Call(TaskFloatLock(f))
    \/ \E f \in FeatureIds : Call(TaskFloatNanMode(f))
    \/ \E f \in FeatureIds : Call(TaskFloatBorders(f))
    \/ \E f \in FeatureIds : Call(TaskFree(f))
    \/ Call(FinishEnd)

SpecLifecycle == InitLifecycle /\ [][NextLifecycle]_vars

(* C18: Finished is terminal: from a state where a Finish has succeeded no
   step takes the builder out of Finished, starts a compile, or changes
   the compiled columns of the dataset. *)
C18_FinishedIsTerminal ==
    [][IsDone =>
          /\ IsDone'
          /\ pc' = "idle"
          /\ DataProvider.Features' = DataProvider.Features]_vars

(* Every step that leaves Finished or changes the columns of a finished
   builder is a call of Start (lines 339-348): it empties the columns and
   the blobs and resets the cursor. *)
C18_OnlyStartLeavesFinished ==
    [][(IsDone /\ ~(/\ IsDone'
                    /\ pc' = "idle"
                    /\ DataProvider.Features' = DataProvider.Features)) =>
          /\ ~IsDone'
          /\ pc' = "idle"
          /\ Cursor' = 0
          /\ DataProvider.Features' = <<>>
          /\ \A f \in 1..Len(FeatureBlobs') : FeatureBlobs'[f] = <<>>]_vars

(* C19, as stated: a feature whose compiled column is produced has its raw
   blob released by the time its task ends: at the barrier no ended task
   has both a column and a non-empty blob, and after Finish no column of
   the dataset belongs to a feature with a non-empty blob. *)
C19_BlobFreedWhenColumnProduced ==
    /\ pc = "compile" =>
          \A f \in 1..Len(task) :
              (task[f] \in {"done", ErrSize, ErrNanMode} /\ featureColumns[f] # NullColumn)
                  => FeatureBlobs[f] = <<>>
    /\ Returned =>
          \A k \in 1..Len(DataProvider.Features) :
              FeatureBlobs[DataProvider.Features[k].featureId + 1] = <<>>

(* C19, amended: a feature whose task completes without raising and
   produced a column has its raw blob released by the time the task ends,
   and after Finish no column of the dataset belongs to a feature with a
   non-empty blob. *)
C19_BlobFreedWhenTaskCompletes ==
    /\ pc = "compile" =>
          \A f \in 1..Len(task) :
              (task[f] = "done" /\ featureColumns[f] # NullColumn)
                  => FeatureBlobs[f] = <<>>
    /\ Returned =>
          \A k \in 1..Len(DataProvider.Features) :
              FeatureBlobs[DataProvider.Features[k].featureId + 1] = <<>>

C19_Witness ==
    /\ Returned /\ IsDone
    /\ FeatureTypes = <<Categorical, BinarizedFloat>>
    /\ Len(DataProvider.Features) = 2
    /\ \A f \in 1..Len(FeatureBlobs) : FeatureBlobs[f] = <<>>
    /\ \A f \in 1..Len(snap.blobs) : snap.blobs[f] # <<>>

(* The position of the first occurrence of v in line. *)
FirstSeen(line, v) == CHOOSE i \in 1..Len(line) :
                         line[i] = v /\ \A j \in 1..(i - 1) : line[j] # v

(* C20: the perfect hash of a categorical feature is stable over the
   successive Finish calls on one store: a step never changes the code of a
   value already seen, the codes stay injective, and a step that adds
   values gives the new values of the reordered line the next codes in the
   order in which the line first shows them. *)
C20_PerfectHashStable ==
    [][\A f \in FeatureIds :
          LET old == FeaturesManager.CatFeaturesPerfectHash[f]
              new == FeaturesManager'.CatFeaturesPerfectHash[f]
          IN /\ Len(old) <= Len(new)
             /\ \A k \in 1..Len(old) : new[k] = old[k]
             /\ \A i, j \in 1..Len(new) : new[i] = new[j] => i = j
             /\ new # old =>
                   /\ pc = "compile" /\ task[f + 1] = "cat"
                   /\ LET line == MakeOrderedLine(FeatureBlobs[f + 1], DataProvider.Order)
                      IN /\ Range(new) = Range(old) \cup Range(line)
                         /\ \A i, j \in (Len(old) + 1)..Len(new) :
                               i < j => FirstSeen(line, new[i]) < FirstSeen(line, new[j])]_vars

(* Values 0, 1 in a first build and 1, 2 in a second: codes 0, 1, 2. *)
C20_Witness ==
    /\ Returned
    /\ Len(snap.blobs) = 2
    /\ snap.manager.CatFeaturesPerfectHash[0] = <<0, 1>>
    /\ snap.blobs[1] = <<1, 2>>
    /\ FeaturesManager.CatFeaturesPerfectHash[0] = <<0, 1, 2>>

(***************************************************************************)
(* SpecPack: CompressVector as a function.  The bin count runs over        *)
(* 2..MaxBinCount, the index sequence over the arithmetic progressions     *)
(* modulo the bin count of length up to MaxPackLen (more than one word at  *)
(* every bit width); the call packs with IntLog2(binCount) bits per key    *)
(* and the result is then read back key by key.                            *)
(***************************************************************************)
PackData(binCount, len, offset, stride) ==
    [i \in 1..len |-> (offset + stride * (i - 1)) % binCount]

CompressInputs ==
    {[stage |-> "input", binCount |-> b, data |-> PackData(b, len, offset, stride)] :
        b \in 2..MaxBinCount, len \in 0..MaxPackLen,
        offset \in 0..(MaxBinCount - 1), stride \in 0..MaxStride}

InitPack == InitBuilder(SharedInputs) /\ compress \in CompressInputs

Compress ==
    /\ compress.stage = "input"
    /\ compress' = [stage |-> "packed", binCount |-> compress.binCount,
                    data |-> compress.data,
                    words |-> CompressVector(compress.data, IntLog2(compress.binCount))]
    /\ UNCHANGED builderVars

Decompress ==
    /\ compress.stage = "packed"
    /\ compress' = [stage |-> "unpacked", binCount |-> compress.binCount,
                    data |-> compress.data, words |-> compress.words,
                    unpacked |-> DecompressVector(compress.words,
                                                  IntLog2(compress.binCount),
                                                  Len(compress.data))]
    /\ UNCHANGED builderVars

NextPack == Compress \/ Decompress

SpecPack == InitPack /\ [][NextPack]_vars

(* C21: packing a sequence of indices below the bin count with
   IntLog2(binCount) bits per key and reading it back gives the sequence
   itself, in the same order; the packed vector has one word for every
   64 div bits keys. *)
C21_PackRoundTrip ==
    /\ compress.stage = "unpacked" => compress.unpacked = compress.data
    /\ compress.stage \in {"packed", "unpacked"} =>
          LET keysPerBlock == StorageBits \div IntLog2(compress.binCount)
          IN /\ (Len(compress.words) - 1) * keysPerBlock < Len(compress.data)
                    \/ Len(compress.words) = 0
             /\ Len(compress.data) <= Len(compress.words) * keysPerBlock

(* Five bins: three bits per key, 21 keys in a word, four words. *)
C21_Witness ==
    /\ compress.stage = "unpacked"
    /\ compress.binCount = 5
    /\ Len(compress.data) = MaxPackLen
    /\ Len(compress.words) = 4
    /\ Range(compress.data) = 0..4
    /\ compress.unpacked = compress.data

(* The columns of a successful Finish, read back with the bit width of the
   distinct-value count (categorical) or of |borders| + 1 + NaN bin
   (float), hold the bins of the reordered values. *)
C21_FinishBitWidths ==
    (Returned /\ IsDone) =>
        \A k \in 1..Len(DataProvider.Features) :
            LET col == DataProvider.Features[k]
                binCount == IF col.kind = "cat" THEN col.uniqueValues
                            ELSE Len(col.borders) + 1
                                 + (IF col.nanMode = NanForbidden THEN 0 ELSE 1)
                bins == DecompressVector(col.data, IntLog2(binCount), col.size)
            IN /\ binCount >= 2
               /\ bins = ExpectedBins(col, snap.blobs[col.featureId + 1])

(* The borders the store held for feature f when Finish was called. *)
StoredBorders(f) ==
    IF f \in snap.manager.HasBorders THEN snap.manager.Borders[f] ELSE <<>>

(* C22: a test builder computes no borders for a raw float feature: after
   its Finish the feature has a column exactly if the store held non-empty
   borders for it at the call, the column carries those borders and the
   bins of the reordered values under them, and the store's borders for
   the feature are as they were. *)
C22_TestModeUsesStoredBorders ==
    (Returned /\ IsTest /\ HasValues /\ error \notin {ErrSize, ErrNanMode}) =>
        \A f \in 0..(Len(FeatureTypes) - 1) :
            FeatureTypes[f + 1] = Float =>
                /\ ColumnsOf(f) # {} <=> StoredBorders(f) # <<>>
                /\ \A k \in ColumnsOf(f) :
                      LET col == DataProvider.Features[k]
                          line == [i \in 1..Len(DataProvider.Order) |->
                                     snap.blobs[f + 1][DataProvider.Order[i] + 1]]
                      IN /\ col.borders = StoredBorders(f)
                         /\ col.data =
                               CompressVector(
                                   BinarizeLine(line, col.nanMode, StoredBorders(f)),
                                   IntLog2(GetBinCount(StoredBorders(f), col.nanMode)))
                /\ FeaturesManager.Borders[f] = snap.manager.Borders[f]
                /\ f \in FeaturesManager.HasBorders <=> f \in snap.manager.HasBorders

(* A test Finish whose float feature 1 has a column from stored borders
   that differ from the borders its own values would give. *)
C22_Witness ==
    /\ Returned /\ IsTest /\ HasValues
    /\ Len(FeatureTypes) = 2 /\ FeatureTypes[2] = Float
    /\ ColumnsOf(1) # {}
    /\ StoredBorders(1) # BuildBorders(snap.blobs[2])

(* A test Finish whose float feature 1 has values that would give borders,
   no stored borders, and no column. *)
C22_WitnessAbsent ==
    /\ Returned /\ IsTest /\ HasValues
    /\ Len(FeatureTypes) = 2 /\ FeatureTypes[2] = Float
    /\ ColumnsOf(1) = {}
    /\ BuildBorders(snap.blobs[2]) # <<>>

(***************************************************************************)
(* The compile of one feature as a function of the inputs of the Finish    *)
(* call alone: the feature's blob, the builder's borders and NaN modes and *)
(* the store at the call, and the Document Order.                          *)
(***************************************************************************)
RefLine(f) ==
    [i \in 1..Len(DataProvider.Order) |-> snap.blobs[f + 1][DataProvider.Order[i] + 1]]

RefUntouched(f) ==
    [end |-> "done", col |-> NullColumn,
     hash |-> snap.manager.CatFeaturesPerfectHash[f],
     storeNanMode |-> snap.manager.NanModes[f],
     nanMode |-> snap.nanModes[f + 1],
     borders |-> snap.borders[f + 1],
     blob |-> snap.blobs[f + 1]]

RefCat(f) ==
    IF Len(snap.blobs[f + 1]) # Len(DataProvider.Order)
    THEN [RefUntouched(f) EXCEPT !.end = ErrSize]
    ELSE IF IsTest /\ Len(snap.manager.CatFeaturesPerfectHash[f]) = 0
    THEN [RefUntouched(f) EXCEPT !.blob = <<>>]
    ELSE LET hash == UpdatePerfectHash(snap.manager.CatFeaturesPerfectHash[f],
                                       RefLine(f), 1)
         IN [RefUntouched(f) EXCEPT
                !.hash = hash,
                !.blob = <<>>,
                !.col = IF Len(hash) > 1
                        THEN CatColumn(f, Len(DataProvider.Order),
                                       CompressVector(BinarizeByHash(hash, RefLine(f)),
                                                      IntLog2(Len(hash))),
                                       Len(hash), GetFeatureName(f))
                        ELSE NullColumn]

RefBin(f) ==
    LET borders == snap.borders[f + 1]
        nanMode == snap.nanModes[f + 1]
        known == snap.manager.NanModes[f]
        col == BinarizedColumn(f, Len(DataProvider.Order), nanMode, borders,
                               CompressVector(RefLine(f),
                                              IntLog2(GetBinCount(borders, nanMode))),
                               GetFeatureName(f))
    IN IF Len(borders) = 0 THEN RefUntouched(f)
       ELSE IF Len(snap.blobs[f + 1]) # Len(DataProvider.Order)
       THEN [RefUntouched(f) EXCEPT !.end = ErrSize]
       ELSE IF known = "unset"
       THEN [RefUntouched(f) EXCEPT !.col = col, !.storeNanMode = nanMode, !.blob = <<>>]
       ELSE IF known = nanMode
       THEN [RefUntouched(f) EXCEPT !.col = col, !.blob = <<>>]
       ELSE [RefUntouched(f) EXCEPT !.col = col, !.end = ErrNanMode]

RefFloat(f) ==
    LET known == snap.manager.NanModes[f]
        nanMode == IF known = "unset" THEN ComputeNanMode(RefLine(f)) ELSE known
        kept == IF f \in snap.manager.HasBorders THEN snap.manager.Borders[f]
                ELSE snap.borders[f + 1]
        borders == IF Len(kept) = 0 /\ ~IsTest THEN BuildBorders(RefLine(f)) ELSE kept
        done == [RefUntouched(f) EXCEPT !.storeNanMode = nanMode, !.nanMode = nanMode,
                                        !.borders = borders]
    IN IF Len(borders) = 0 THEN done
       ELSE [done EXCEPT
                !.blob = <<>>,
                !.col = BinarizedColumn(f, Len(DataProvider.Order), nanMode, borders,
                                        CompressVector(
                                            BinarizeLine(RefLine(f), nanMode, borders),
                                            IntLog2(GetBinCount(borders, nanMode))),
                                        GetFeatureName(f))]

RefTask(f) ==
    IF Len(snap.blobs[f + 1]) = 0 THEN RefUntouched(f)
    ELSE IF FeatureTypes[f + 1] = Categorical THEN RefCat(f)
    ELSE IF FeatureTypes[f + 1] = BinarizedFloat THEN RefBin(f)
    ELSE RefFloat(f)

RefFeatures == 0..(Len(snap.blobs) - 1)

(* The store at the barrier. *)
RefManager ==
    [snap.manager EXCEPT
        !.Known = IF IsTest THEN @ ELSE @ \cup RefFeatures,
        !.NanModes = [f \in FeatureIds |->
                         IF f \in RefFeatures THEN RefTask(f).storeNanMode ELSE @[f]],
        !.CatFeaturesPerfectHash =
            [f \in FeatureIds |-> IF f \in RefFeatures THEN RefTask(f).hash ELSE @[f]]]

RefFailed == \E f \in RefFeatures : RefTask(f).end # "done"

RefError ==
    IF \E f \in RefFeatures : RefTask(f).end = ErrSize THEN ErrSize ELSE ErrNanMode

(* The state at the barrier is the one the inputs determine. *)
BarrierAsRef ==
    /\ FeaturesManager = RefManager
    /\ Len(task) = Len(snap.blobs)
    /\ \A f \in RefFeatures :
          /\ task[f + 1] = RefTask(f).end
          /\ featureColumns[f + 1] = RefTask(f).col
          /\ featureNames[f + 1] = GetFeatureName(f)
          /\ FeatureBlobs[f + 1] = RefTask(f).blob
          /\ Borders[f + 1] = RefTask(f).borders
          /\ NanModes[f + 1] = RefTask(f).nanMode

(* C23: the outcome of Finish is a function of its inputs: whatever the
   number of workers and the interleaving of their steps, the state at the
   barrier and the state Finish returns in (the error, the columns of the
   dataset, the store, the builder's borders) are the ones computed from
   the inputs one feature after the other. *)
C23_FinishDeterministic ==
    [][(pc = "compile" /\ pc' = "idle") =>
          /\ BarrierAsRef
          /\ DataProvider'.Order = DataProvider.Order
          /\ IF RefFailed
             THEN /\ error' = RefError
                  /\ DataProvider' = DataProvider
                  /\ FeaturesManager' = RefManager
                  /\ IsDone' = IsDone
             ELSE LET st == Reconcile([features |-> snap.dp.Features,
                                       manager |-> RefManager,
                                       borders |-> [f \in 1..Len(snap.blobs) |->
                                                       RefTask(f - 1).borders]],
                                      1,
                                      [f \in 1..Len(snap.blobs) |-> RefTask(f - 1).col])
                  IN /\ DataProvider'.Features = st.features
                     /\ Borders' = st.borders
                     /\ FeaturesManager' =
                           IF IsTest THEN st.manager
                           ELSE [st.manager EXCEPT
                                    !.TargetBorders = BuildBorders(DataProvider.Targets)]
                     /\ error' = ValidateDataset(DataProvider.Weights,
                                                 DataProvider.Targets, Pairs)
                     /\ IsDone' = (error' = ErrNone)]_vars

(* A Finish with the largest pool and a column for each of two raw float
   features. *)
C23_Witness ==
    /\ Returned /\ IsDone
    /\ BuildThreads = MaxThreads
    /\ Len(FeatureTypes) = 3
    /\ FeatureTypes[2] = Float /\ FeatureTypes[3] = Float
    /\ ColumnsOf(1) # {} /\ ColumnsOf(2) # {}

(* C24: a step of a worker between the start of the compile and the
   barrier writes no per-document array and not the Document Order; it is
   the step of the task of one feature f, which no other worker takes up
   again, and of the result columns, the feature names, the blobs, the
   borders and the NaN modes it leaves every entry other than entry f as
   it was. *)
C24_WorkersWriteOwnEntries ==
    [][(pc = "compile" /\ pc' = "compile") =>
          /\ DataProvider' = DataProvider
          /\ Labels' = Labels /\ Pairs' = Pairs
          /\ \E f \in 1..Len(task) :
                /\ task'[f] # task[f]
                /\ task'[f] # "todo"
                /\ \A g \in 1..Len(task) :
                      g # f =>
                          /\ task'[g] = task[g]
                          /\ featureColumns'[g] = featureColumns[g]
                          /\ featureNames'[g] = featureNames[g]
                          /\ FeatureBlobs'[g] = FeatureBlobs[g]
                          /\ Borders'[g] = Borders[g]
                          /\ NanModes'[g] = NanModes[g]
          /\ Len(featureColumns') = Len(task) /\ Len(featureNames') = Len(task)
          /\ Len(FeatureBlobs') = Len(task) /\ Len(Borders') = Len(Borders)
          /\ Len(NanModes') = Len(NanModes)]_vars

(* Two workers in the middle of their features, one of which has written
   its column and is about to release its blob. *)
C24_Witness ==
    /\ pc = "compile"
    /\ Cardinality(InProgress) = 2
    /\ \E f \in 1..Len(task) : task[f] = "free" /\ featureColumns[f] # NullColumn
    /\ \E f \in 1..Len(task) : task[f] = "floatBorders"

(***************************************************************************)
(* SpecBlocks: the ingestion.  The caller may call Start again while it    *)
(* ingests, with another feature count and other categorical features;     *)
(* the documents come in one or more blocks; feature 1 may be ignored or   *)
(* pre-binarized; there is one baseline.                                   *)
(***************************************************************************)
BlocksInputs ==
    [isTest |-> {FALSE}, shuffle |-> {FALSE}, seeds |-> {0}, threads |-> {1},
     ignore |-> {{}, {1}}, binarized |-> {NoBinarizedFeatures, PrebinnedFeature1},
     helper |-> {FALSE}]

InitBlocks == InitP(BlocksInputs)

NextBlocks ==
    \/ \E featureCount \in 1..2, catFeatureIds \in SUBSET {0, 1} :
         /\ Ingesting
         /\ \A c \in catFeatureIds : c < featureCount
         /\ Call(Start(featureCount, 1, catFeatureIds))
    \/ \E blockSize \in 1..MaxDocs : Ingesting /\ Call(StartNextBlock(blockSize))
    \/ \E i \in Rows : Ingesting /\ Counted(AddTarget(i, 1))
    \/ \E i \in Rows : Ingesting /\ Counted(AddWeight(i, 2))
    \/ \E i \in Rows : Ingesting /\ Counted(AddQueryId(i, 1))
    \/ \E i \in Rows, f \in FeatureIds :
         Ingesting /\ Counted(WriteBinarizedFeatureToBlobImpl(i, f, 1))
    \/ \E i \in Rows, f \in FeatureIds :
         Ingesting /\ Counted(WriteFloatOrCatFeatureToBlobImpl(i, f, 1))
    \/ ~FinishFailed /\ Call(FinishBegin(TargetVals, WeightVals))
    \/ \E f \in FeatureIds : Call(TaskBegin(f))
    \/ \E f \in FeatureIds : Call(TaskCat(f))
    \/ \E f \in FeatureIds : Call(TaskBin(f))
    \/ \E f \in FeatureIds : Call(TaskBinLock(f))
    \/ \E f \in FeatureIds : Call(TaskBinNanMode(f))
    \/ \E f \in FeatureIds : Call(TaskFloat(f))
    \/ \E f \in FeatureIds : Call(TaskFloatLock(f))
    \/ \E f \in FeatureIds : Call(TaskFloatNanMode(f))
    \/ \E f \in FeatureIds : Call(TaskFloatBorders(f))
    \/ \E f \in FeatureIds : Call(TaskFree(f))
    \/ Call(FinishEnd)

SpecBlocks == InitBlocks /\ [][NextBlocks]_vars

(* Every per-document array has the length of the targets, every baseline
   too, every blob of a feature that is not ignored holds one value of its
   kind's width per document, and every blob of an ignored feature is
   empty. *)
Sized ==
    LET N == Len(DataProvider.Targets)
    IN /\ Len(DataProvider.Weights) = N
       /\ Len(DataProvider.QueryIds) = N
       /\ Len(DataProvider.SubgroupIds) = N
       /\ Len(DataProvider.Timestamp) = N
       /\ Len(Labels) = N
       /\ \A b \in 1..Len(DataProvider.Baseline) : Len(DataProvider.Baseline[b]) = N
       /\ \A f \in 1..Len(FeatureBlobs) :
             Len(FeatureBlobs[f]) * BytesOfKind(FeatureTypes[f]) =
                 IF (f - 1) \in IgnoreFeatures THEN 0 ELSE N * BytesOfKind(FeatureTypes[f])

(* Start has been called and Finish has not. *)
Started == pc = "idle" /\ ~snap.taken /\ Len(FeatureBlobs) > 0

(* C25: after Start and any sequence of StartNextBlock calls the targets,
   weights, group ids, subgroup ids, timestamps, labels and baselines have
   one length N, the blob of every feature that is not ignored has N
   values of its kind's width, and the blob of every ignored feature is
   empty. *)
C25_ArraysSizedByBlocks == Started => Sized

(* What holds of the code: every StartNextBlock leaves the arrays sized,
   value writes keep them so, and Start does if the builder holds no
   document; the blob of an ignored feature is always empty and Finish
   gives it no column. *)
C25_SizedAfterEveryBlock ==
    [][/\ Len(DataProvider.Targets') > Len(DataProvider.Targets) => Sized'
       /\ (Len(DataProvider.Targets) = 0 /\ Len(DataProvider.Targets') = 0 /\ Started')
             => Sized'
       /\ (/\ Started /\ Sized /\ Started'
           /\ Len(DataProvider.Targets') = Len(DataProvider.Targets)
           /\ Len(FeatureBlobs') = Len(FeatureBlobs)
           /\ \A f \in 1..Len(FeatureBlobs) : Len(FeatureBlobs'[f]) = Len(FeatureBlobs[f]))
             => Sized']_vars

C25_IgnoredFeatureHasNoColumn ==
    /\ \A f \in 1..Len(FeatureBlobs) : (f - 1) \in IgnoreFeatures => FeatureBlobs[f] = <<>>
    /\ \A k \in 1..Len(DataProvider.Features) :
          DataProvider.Features[k].featureId \notin IgnoreFeatures

(* Position i of `now` holds what it held in `before`, for every position
   of `before`. *)
KeepsRows(now, before) ==
    /\ Len(now) >= Len(before)
    /\ \A i \in 1..Len(before) : now[i] = before[i]

(* C26: a StartNextBlock gives every row it adds weight 1, its global row
   index as group id and as subgroup id, and leaves the targets, weights,
   group ids, subgroup ids, timestamps and blob values of the rows of the
   earlier blocks as they were. *)
C26_NewBlockDefaults ==
    [][Len(DataProvider.Targets') > Len(DataProvider.Targets) =>
          /\ Cursor' = Len(DataProvider.Targets)
          /\ \A i \in (Len(DataProvider.Targets) + 1)..Len(DataProvider.Targets') :
                /\ DataProvider.Weights'[i] = 1
                /\ DataProvider.QueryIds'[i] = i - 1
                /\ DataProvider.SubgroupIds'[i] = i - 1
          /\ KeepsRows(DataProvider.Targets', DataProvider.Targets)
          /\ KeepsRows(DataProvider.Weights', DataProvider.Weights)
          /\ KeepsRows(DataProvider.QueryIds', DataProvider.QueryIds)
          /\ KeepsRows(DataProvider.SubgroupIds', DataProvider.SubgroupIds)
          /\ KeepsRows(DataProvider.Timestamp', DataProvider.Timestamp)
          /\ Len(FeatureBlobs') = Len(FeatureBlobs)
          /\ \A f \in 1..Len(FeatureBlobs) : KeepsRows(FeatureBlobs'[f], FeatureBlobs[f])]_vars

(* A second block of one row behind a first row that was given weight 2,
   group 1 and a feature value 1. *)
C26_Witness ==
    /\ Started
    /\ Cursor = 1
    /\ DataProvider.Weights = <<2, 1>>
    /\ DataProvider.QueryIds = <<1, 1>>
    /\ DataProvider.SubgroupIds = <<0, 1>>
    /\ \E f \in 1..Len(FeatureBlobs) : FeatureBlobs[f] = <<1, 0>>

(* The kind the arguments of the last Start give feature f (from 0): the
   pre-binarized features of the builder, and the categorical features of
   the call, which a Start that does not raise records in the dataset
   (line 373). *)
BinarizedIds ==
    {BinarizedFeaturesMetaInfo.BinarizedFeatureIds[i] :
        i \in 1..Len(BinarizedFeaturesMetaInfo.BinarizedFeatureIds)}

KindByArguments(f, catFeatureIds) ==
    IF f \in BinarizedIds THEN BinarizedFloat
    ELSE IF f \in catFeatureIds THEN Categorical
    ELSE Float

(* The last Start did not raise: it is the call that gave the feature
   kinds their number, and no pre-binarized index is out of its range. *)
LastStartReturned ==
    /\ Len(FeatureTypes) > 0
    /\ \A id \in BinarizedIds : id < Len(FeatureTypes)

(* C27: after any Start, a repeated one included, the kind of every
   feature is the one the arguments of that call give it: pre-binarized
   if declared so, else categorical if listed, else float. *)
C27_KindsByLastStart ==
    LastStartReturned =>
        \A f \in 0..(Len(FeatureTypes) - 1) :
            FeatureTypes[f + 1] = KindByArguments(f, DataProvider.CatFeatureIds)

(* What holds of the code: the first Start of a builder gives the kinds of
   its arguments, with the pre-binarized borders and NaN mode; it raises
   exactly if a pre-binarized index is not below the feature count; a
   later Start only adds categorical marks; and no step that is not a
   Start changes a kind. *)
C27_KindsByFirstStart ==
    [][/\ (FeatureTypes = <<>> /\ FeatureTypes' # <<>>) =>
             /\ error' = ErrOutOfRange <=> \E id \in BinarizedIds : id >= Len(FeatureTypes')
             /\ error' # ErrOutOfRange =>
                   \A f \in 0..(Len(FeatureTypes') - 1) :
                       /\ FeatureTypes'[f + 1] =
                             KindByArguments(f, DataProvider.CatFeatureIds')
                       /\ \A i \in 1..Len(BinarizedFeaturesMetaInfo.BinarizedFeatureIds) :
                             BinarizedFeaturesMetaInfo.BinarizedFeatureIds[i] = f =>
                                 /\ Borders'[f + 1] = BinarizedFeaturesMetaInfo.Borders[i]
                                 /\ NanModes'[f + 1] = BinarizedFeaturesMetaInfo.NanModes[i]
       /\ FeatureTypes' # FeatureTypes =>
             /\ pc = "idle" /\ Cursor' = 0 /\ ~IsDone' /\ snap' = NoSnap
             /\ \A f \in 1..Len(FeatureBlobs') : FeatureBlobs'[f] = <<>>
       /\ \A f \in 1..Len(FeatureTypes) :
             (f <= Len(FeatureTypes') /\ FeatureTypes'[f] # FeatureTypes[f]) =>
                 FeatureTypes[f] = Float]_vars

====
